---- MODULE Spec2Model ----
(***************************************************************************)
(* rtc-ctl: user-mode control of a DS1302 time-of-year clock (TOY) over    *)
(* three GPIO pins (CE, CK, IO).                                           *)
(*                                                                         *)
(* Two specifications share this module.                                   *)
(*   SpecBus  the bit transport: writeTOY and readTOY one pin operation    *)
(*            per step, against a model of the chip's serial interface,    *)
(*            driven by main's register/RAM commands.                      *)
(*   Spec     the clock commands (read, update, set, systohc, halt) with   *)
(*            a transfer as one step, the host clock and the calibration   *)
(*            file.                                                        *)
(***************************************************************************)
EXTENDS Integers, Sequences, FiniteSets, TLC

(***************************************************************************)
(* Byte arithmetic                                                         *)
(***************************************************************************)

Bit(x, k) == (x \div (2 ^ k)) % 2

RECURSIVE BitAnd(_, _)
BitAnd(x, m) ==
    IF x = 0 \/ m = 0 THEN 0
    ELSE (x % 2) * (m % 2) + 2 * BitAnd(x \div 2, m \div 2)

\* (unsigned char) x
Byte(x) == x % 256

\* (a conversion that leaves the number in binary)
BCDPlain(n) == n

\* 2-digit BCD from binary
BCD(n) == (n \div 10) * 16 + (n % 10)

\* binary from 2-digit BCD
BIN(bcd) == ((bcd \div 16) % 16) * 10 + (bcd % 16)

(***************************************************************************)
(* Register addresses and bits                                             *)
(***************************************************************************)

TOY_READ == 1
TOY_SCATTER == 256
TOY_GATHER == 256

TOY_SEC == 128
TOY_M_HALT == 128
TOY_M_SEC == 127
TOY_MIN == 130
TOY_M_MIN == 127
TOY_HR == 132
TOY_M_12HR == 128
TOY_M_PM == 32
TOY_M_HR24 == 63
TOY_M_HR12 == 31
TOY_DAY == 134
TOY_WDY == 138
TOY_YR == 140
TOY_MON == 136
TOY_M_MON_MBZ == 224
TOY_CTL == 142
TOY_M_WP == 128
TOY_TCS == 144
TOY_M_TCS_DISABLE == 92
TOY_M_TCS_1D_2K == 165
TOY_CBURST == 190
TOY_RAM_BASE == 192
TOY_RAM_END == 252
TOY_RBURST == 254

\* offset of a register from the clock base
OFFSET(r) == ((r - TOY_SEC) \div 2) % 64

TOY_CLK_REGS == 1 + OFFSET(TOY_CTL) - OFFSET(TOY_SEC)
TOY_RAM_REGS == 1 + OFFSET(TOY_RAM_END) - OFFSET(TOY_RAM_BASE)

TOY_MAX_READS == 30000
MIN_CAL_RUNDAYS == 12

F_READ == 0
F_SET == 1
F_SET2SYS == 2
F_UPDATE == 3
F_READRAM == 4
F_SETRAM == 5
F_READTCS == 6
F_SETTCS == 7
F_HALT == 8
F_TESTRAM == 9

(***************************************************************************)
(* The DS1302 as seen from its three pins.  A transfer starts when CE      *)
(* rises; the chip samples IO on rising clock edges (command, then write   *)
(* data) and, after a read command, drives IO from each falling edge.      *)
(* Writes other than to the control register are ignored while WP is set.  *)
(* A clock burst is transferred to the counters only if all 8 registers    *)
(* were written.                                                           *)
(***************************************************************************)

\* IO not driven by the chip
HiZ == 2

\* the bits the chip implements in each clock register, seconds..control
ChipRegMask == <<255, 127, 191, 63, 31, 7, 255, 128>>

ChipAddr(c) == (c.cmd \div 2) % 32
ChipIsRam(c) == Bit(c.cmd, 6) = 1
ChipIsRead(c) == Bit(c.cmd, 0) = 1
ChipWP(c) == BitAnd(c.regs[1 + OFFSET(TOY_CTL)], TOY_M_WP) # 0

\* the byte the chip shifts out next in a read
ChipReadByte(c) ==
    LET a == ChipAddr(c) IN
    IF ChipIsRam(c)
    THEN IF a = 31 THEN (IF c.idx < TOY_RAM_REGS THEN c.ram[c.idx + 1] ELSE 0)
         ELSE c.ram[a + 1]
    ELSE IF a = 31 THEN (IF c.idx < TOY_CLK_REGS THEN c.regs[c.idx + 1] ELSE 0)
         ELSE IF a < TOY_CLK_REGS THEN c.regs[a + 1]
         ELSE IF a = OFFSET(TOY_TCS) THEN c.tcs
         ELSE 0

\* a complete data byte has been shifted into the chip
ChipStore(c, byte) ==
    LET a == ChipAddr(c)
        next == [c EXCEPT !.idx = c.idx + 1, !.sr = 0, !.cnt = 0]
    IN
    IF ChipIsRam(c)
    THEN IF ChipWP(c) THEN next
         ELSE IF a = 31
              THEN IF c.idx < TOY_RAM_REGS
                   THEN [next EXCEPT !.ram[c.idx + 1] = byte] ELSE next
              ELSE IF c.idx = 0 THEN [next EXCEPT !.ram[a + 1] = byte] ELSE next
    ELSE IF a = 31
         THEN IF c.idx < TOY_CLK_REGS
              THEN [next EXCEPT !.hold = Append(c.hold, byte)] ELSE next
         ELSE IF c.idx # 0 THEN next
         ELSE IF a = OFFSET(TOY_CTL)
              THEN [next EXCEPT !.regs[a + 1] = BitAnd(byte, ChipRegMask[a + 1])]
         ELSE IF ChipWP(c) THEN next
         ELSE IF a < TOY_CLK_REGS
              THEN [next EXCEPT !.regs[a + 1] = BitAnd(byte, ChipRegMask[a + 1])]
         ELSE IF a = OFFSET(TOY_TCS) THEN [next EXCEPT !.tcs = byte]
         ELSE next

\* CE rises (clock must be low for the transfer to start)
ChipSelect(c, clk) ==
    IF c.present /\ clk = 0
    THEN [c EXCEPT !.phase = "cmd", !.sr = 0, !.cnt = 0, !.idx = 0,
                   !.hold = <<>>, !.out = HiZ]
    ELSE c

\* CE falls: the transfer ends, a complete clock burst is committed
ChipDeselect(c) ==
    LET done == [c EXCEPT !.phase = "idle", !.out = HiZ, !.hold = <<>>] IN
    IF c.phase = "wr" /\ ~ChipIsRam(c) /\ ChipAddr(c) = 31
       /\ Len(c.hold) = TOY_CLK_REGS /\ ~ChipWP(c)
    THEN [done EXCEPT !.regs = [k \in 1..TOY_CLK_REGS |->
                                   BitAnd(c.hold[k], ChipRegMask[k])]]
    ELSE done

\* rising clock edge while CE is high; line is the level on IO
ChipRise(c, line) ==
    LET sr == c.sr + line * (2 ^ c.cnt) IN
    CASE c.phase = "cmd" ->
            IF c.cnt < 7 THEN [c EXCEPT !.sr = sr, !.cnt = c.cnt + 1]
            ELSE IF Bit(sr, 7) = 0 THEN [c EXCEPT !.phase = "idle"]
            ELSE [c EXCEPT !.cmd = sr, !.sr = 0, !.cnt = 0,
                           !.phase = IF Bit(sr, 0) = 1 THEN "rd" ELSE "wr"]
      [] c.phase = "wr" ->
            IF c.cnt < 7 THEN [c EXCEPT !.sr = sr, !.cnt = c.cnt + 1]
            ELSE ChipStore(c, sr)
      [] c.phase = "rd" -> [c EXCEPT !.out = HiZ]
      [] OTHER -> c

\* falling clock edge while CE is high
ChipFall(c) ==
    IF c.phase = "rd"
    THEN LET b == Bit(ChipReadByte(c), c.cnt) IN
         IF c.cnt < 7 THEN [c EXCEPT !.out = b, !.cnt = c.cnt + 1]
         ELSE [c EXCEPT !.out = b, !.cnt = 0, !.idx = c.idx + 1]
    ELSE c

(***************************************************************************)
(* State                                                                   *)
(***************************************************************************)

VARIABLES
    ce, ck, io,     \* levels the host drives on chip-enable, clock and data
    ioDir,          \* direction of the data pin: "out" or "in"
    chip,           \* the DS1302
    fn,             \* main: the function selected on the command line
    testmode,       \* --test-mode
    pc,             \* position of the program
    todo,           \* the calls still to be made, innermost first
    reg, i, n,      \* readTOY/writeTOY: command shift register, bit and byte counters
    data,           \* the byte being shifted
    dp,             \* writeTOY: the bytes still to be written
    rbuf,           \* readTOY: the bytes read by the last transfer
    exitCode,       \* exit status, "none" while running
    obs,            \* per-transfer observation of the pins
    force,          \* --force
    calrundays,     \* --caldays
    hour12,         \* --12-hour-mode
    calibfilename,  \* --adjfile, "NULL" with --noadjfile
    sysclock,       \* the host's CLOCK_REALTIME: [sec, frac], frac in 1/Res s
    cfile, bfile,   \* contents of the calibration file and of its .bak copy
    tfile,          \* writeCalib: contents of the .tmp file
    newtime,        \* main: the time to set, as parseSET leaves it
    newt,           \* setTOY: the time to set, seconds since the epoch
    stime, etime,   \* setTOY: host time on entry / after the drift fit
    calib,          \* setTOY, readUpdate: struct calib
    clkregs,        \* setTOY, readUpdate: the clock registers last read
    firstsec,       \* the seconds value the next read is compared with
    try,            \* setTOY: passes of the stabilizing loop
    toytime,        \* readUpdate: passes of the loop, then the decoded time
    env,            \* the surroundings: oscillator, what may still happen
    ev              \* what the program has done so far

pins == <<ce, ck, io, ioDir>>
busVars == <<ce, ck, io, ioDir, chip, fn, testmode, pc, todo, reg, i, n, data,
             dp, rbuf, exitCode, obs>>
hostVars == <<force, calrundays, hour12, calibfilename, sysclock, cfile, bfile,
              tfile, newtime,
              newt, stime, etime, calib, clkregs, firstsec, try, toytime, env,
              ev>>
vars == <<busVars, hostVars>>

Call(f, r, cnt, bytes) == [f |-> f, reg |-> r, n |-> cnt, data |-> bytes]

\* the level on the data line
Line ==
    IF ioDir = "out" THEN io
    ELSE IF chip.present THEN (IF chip.out = HiZ THEN 0 ELSE chip.out)
    ELSE 1

\* what has been seen on the pins since the transfer of n data bytes to
\* register r began: clock edges, turns of the data pin to input, samples
\* of the data pin, and pin operations in all
Obs0(r, isRead) ==
    [reg |-> r, rd |-> isRead, n |-> 0, rises |-> 0, falls |-> 0, toIn |-> 0,
     samples |-> 0, ops |-> 0]

NoObs == Obs0(0, FALSE)

(***************************************************************************)
(* Pin Access                                                              *)
(***************************************************************************)

setCK(v) ==
    /\ ck' = v
    /\ chip' = IF ce = 1 /\ ck = 0 /\ v = 1 THEN ChipRise(chip, Line)
               ELSE IF ce = 1 /\ ck = 1 /\ v = 0 THEN ChipFall(chip)
               ELSE chip
    /\ obs' = [obs EXCEPT !.rises = @ + (IF ck = 0 /\ v = 1 THEN 1 ELSE 0),
                          !.falls = @ + (IF ck = 1 /\ v = 0 THEN 1 ELSE 0),
                          !.ops = @ + 1]
    /\ UNCHANGED <<ce, io, ioDir>>

setCE(v) ==
    /\ ce' = v
    /\ chip' = IF ce = 0 /\ v = 1 THEN ChipSelect(chip, ck)
               ELSE IF ce = 1 /\ v = 0 THEN ChipDeselect(chip)
               ELSE chip
    /\ obs' = [obs EXCEPT !.ops = @ + 1]
    /\ UNCHANGED <<ck, io, ioDir>>

setIO(v) ==
    /\ io' = v
    /\ obs' = [obs EXCEPT !.ops = @ + 1]
    /\ UNCHANGED <<ce, ck, ioDir, chip>>

setIO2input ==
    /\ ioDir' = "in"
    /\ obs' = [obs EXCEPT !.toIn = @ + (IF ioDir = "out" THEN 1 ELSE 0),
                          !.ops = @ + 1]
    /\ UNCHANGED <<ce, ck, io, chip>>

setIO2output ==
    /\ ioDir' = "out"
    /\ obs' = [obs EXCEPT !.ops = @ + 1]
    /\ UNCHANGED <<ce, ck, io, chip>>

\* all three pins requested as outputs driving low, CE first
initIO ==
    /\ pc = "initIO"
    /\ ce' = 0 /\ ck' = 0 /\ io' = 0 /\ ioDir' = "out"
    /\ chip' = IF ce = 1 THEN ChipDeselect(chip) ELSE chip
    /\ obs' = NoObs
    /\ pc' = IF fn < 0 THEN "call" ELSE "main"
    /\ UNCHANGED <<fn, testmode, hostVars, todo, reg, i, n, data, dp, rbuf, exitCode>>

(***************************************************************************)
(* Bit Transport: writeTOY                                                 *)
(***************************************************************************)

\* XferCount with the clock burst one register short (control left out)
XferCountShort(r, cnt) ==
    IF Byte(r) = TOY_CBURST THEN OFFSET(TOY_CTL) - OFFSET(TOY_SEC)
    ELSE IF Byte(r) = TOY_RBURST THEN cnt
    ELSE 1

\* the number of data bytes of a transfer: fixed by the register, except
\* for a RAM burst, where the caller passes it
XferCount(r, cnt) ==
    IF Byte(r) = TOY_CBURST THEN TOY_CLK_REGS
    ELSE IF Byte(r) = TOY_RBURST THEN cnt
    ELSE 1

\* BadRamCount letting a count of zero through
BadRamCountNoZero(r, cnt) ==
    Byte(r) = TOY_RBURST /\ (cnt < 0 \/ cnt > TOY_RAM_REGS)

\* "Internal error, %d RAM write/read"
BadRamCount(r, cnt) ==
    Byte(r) = TOY_RBURST /\ (cnt <= 0 \/ cnt > TOY_RAM_REGS)

InCall(f) == pc = "call" /\ todo # <<>> /\ Head(todo).f = f

writeTOY ==
    /\ InCall("writeTOY")
    /\ LET c == Head(todo) IN
       IF BadRamCount(c.reg, c.n)
       THEN /\ pc' = "exit"
            /\ exitCode' = "EX_SOFTWARE"
            /\ UNCHANGED <<todo, reg, n, dp, obs>>
       ELSE /\ pc' = "w_ck0"
            /\ n' = XferCount(c.reg, c.n)
            /\ reg' = c.reg
            /\ dp' = c.data
            /\ todo' = Tail(todo)
            /\ obs' = [Obs0(Byte(c.reg), FALSE) EXCEPT !.n = XferCount(c.reg, c.n)]
            /\ UNCHANGED exitCode
    /\ UNCHANGED <<ce, ck, io, ioDir, chip, fn, testmode, hostVars, i, data, rbuf>>

w_ck0 ==
    /\ pc = "w_ck0"
    /\ setCK(0)
    /\ pc' = "w_ce1"
    /\ UNCHANGED <<fn, testmode, hostVars, todo, reg, i, n, data, dp, rbuf, exitCode>>

w_ce1 ==
    /\ pc = "w_ce1"
    /\ setCE(1)
    /\ i' = 0
    /\ pc' = "w_cmd_io"
    /\ UNCHANGED <<fn, testmode, hostVars, todo, reg, n, data, dp, rbuf, exitCode>>

\* (w_cmd_io presenting the command byte most significant bit first)
w_cmd_io_msb ==
    /\ pc = "w_cmd_io"
    /\ setIO(Bit(reg, 7))
    /\ reg' = (2 * reg) % 256
    /\ pc' = "w_cmd_hi"
    /\ UNCHANGED <<fn, testmode, hostVars, todo, i, n, data, dp, rbuf, exitCode>>

\* command/address byte, LSB first
w_cmd_io ==
    /\ pc = "w_cmd_io"
    /\ setIO(reg % 2)
    /\ reg' = reg \div 2
    /\ pc' = "w_cmd_hi"
    /\ UNCHANGED <<fn, testmode, hostVars, todo, i, n, data, dp, rbuf, exitCode>>

w_cmd_hi ==
    /\ pc = "w_cmd_hi"
    /\ setCK(1)
    /\ pc' = "w_cmd_lo"
    /\ UNCHANGED <<fn, testmode, hostVars, todo, reg, i, n, data, dp, rbuf, exitCode>>

w_cmd_lo ==
    /\ pc = "w_cmd_lo"
    /\ setCK(0)
    /\ i' = i + 1
    /\ pc' = IF i + 1 < 8 THEN "w_cmd_io" ELSE "w_next"
    /\ UNCHANGED <<fn, testmode, hostVars, todo, reg, n, data, dp, rbuf, exitCode>>

\* while( n-- ): fetch the next data byte
w_next ==
    /\ pc = "w_next"
    /\ n' = n - 1
    /\ IF n # 0
       THEN /\ data' = Byte(Head(dp))
            /\ dp' = Tail(dp)
            /\ i' = 0
            /\ pc' = "w_dat_io"
       ELSE /\ pc' = "w_end_io"
            /\ UNCHANGED <<data, dp, i>>
    /\ UNCHANGED <<ce, ck, io, ioDir, chip, obs, fn, testmode, hostVars, todo, reg, rbuf,
                   exitCode>>

w_dat_io ==
    /\ pc = "w_dat_io"
    /\ setIO(data % 2)
    /\ data' = data \div 2
    /\ pc' = "w_dat_hi"
    /\ UNCHANGED <<fn, testmode, hostVars, todo, reg, i, n, dp, rbuf, exitCode>>

w_dat_hi ==
    /\ pc = "w_dat_hi"
    /\ setCK(1)
    /\ pc' = "w_dat_lo"
    /\ UNCHANGED <<fn, testmode, hostVars, todo, reg, i, n, data, dp, rbuf, exitCode>>

w_dat_lo ==
    /\ pc = "w_dat_lo"
    /\ setCK(0)
    /\ i' = i + 1
    /\ pc' = IF i + 1 < 8 THEN "w_dat_io" ELSE "w_next"
    /\ UNCHANGED <<fn, testmode, hostVars, todo, reg, n, data, dp, rbuf, exitCode>>

w_end_io ==
    /\ pc = "w_end_io"
    /\ setIO(0)
    /\ pc' = "w_end_ce"
    /\ UNCHANGED <<fn, testmode, hostVars, todo, reg, i, n, data, dp, rbuf, exitCode>>

\* dropping CE transfers clock data to the counting registers
w_end_ce ==
    /\ pc = "w_end_ce"
    /\ setCE(0)
    /\ pc' = "call"
    /\ UNCHANGED <<fn, testmode, hostVars, todo, reg, i, n, data, dp, rbuf, exitCode>>

writeTOY_pins ==
    \/ w_ck0 \/ w_ce1 \/ w_cmd_io \/ w_cmd_hi \/ w_cmd_lo \/ w_next
    \/ w_dat_io \/ w_dat_hi \/ w_dat_lo \/ w_end_io \/ w_end_ce

(***************************************************************************)
(* Bit Transport: readTOY                                                  *)
(***************************************************************************)

\* ReadCmdClockFalls leaving the clock high after every command bit
ReadCmdClockFallsNever(bit) == FALSE

\* ReadCmdClockFalls lowering the clock after the last command bit as well
ReadCmdClockFallsAlways(bit) == TRUE

\* the command loop lowers the clock after every bit but the last, so that
\* the data pin can be turned around before the chip starts to drive it
ReadCmdClockFalls(bit) == bit < 7

\* ReadClockRises raising the clock after the last bit as well
ReadClockRisesAlways(bit, left) == TRUE

\* the data loop raises the clock again unless this was the last bit of the
\* last byte
ReadClockRises(bit, left) == bit < 7 \/ left # 0

\* ShiftIn assembling the byte most significant bit first
ShiftInMsbFirst(d, level) == Byte(2 * d) + level

\* *data >>= 1; if the pin is set, *data |= 0x80
ShiftIn(d, level) == (d \div 2) + 128 * level

readTOY ==
    /\ InCall("readTOY")
    /\ LET c == Head(todo) IN
       IF BadRamCount(c.reg, c.n)
       THEN /\ pc' = "exit"
            /\ exitCode' = "EX_SOFTWARE"
            /\ UNCHANGED <<todo, reg, n, rbuf, obs>>
       ELSE /\ pc' = "r_ck0"
            /\ n' = XferCount(c.reg, c.n)
            /\ reg' = IF c.reg % 2 = 0 THEN c.reg + TOY_READ ELSE c.reg
            /\ rbuf' = <<>>
            /\ todo' = Tail(todo)
            /\ obs' = [Obs0(Byte(c.reg), TRUE) EXCEPT !.n = XferCount(c.reg, c.n)]
            /\ UNCHANGED exitCode
    /\ UNCHANGED <<ce, ck, io, ioDir, chip, fn, testmode, hostVars, i, data, dp>>

r_ck0 ==
    /\ pc = "r_ck0"
    /\ setCK(0)
    /\ pc' = "r_ce1"
    /\ UNCHANGED <<fn, testmode, hostVars, todo, reg, i, n, data, dp, rbuf, exitCode>>

\* raising CE captures the counting registers
r_ce1 ==
    /\ pc = "r_ce1"
    /\ setCE(1)
    /\ i' = 0
    /\ pc' = "r_cmd_io"
    /\ UNCHANGED <<fn, testmode, hostVars, todo, reg, n, data, dp, rbuf, exitCode>>

r_cmd_io ==
    /\ pc = "r_cmd_io"
    /\ setIO(reg % 2)
    /\ reg' = reg \div 2
    /\ pc' = "r_cmd_hi"
    /\ UNCHANGED <<fn, testmode, hostVars, todo, i, n, data, dp, rbuf, exitCode>>

r_cmd_hi ==
    /\ pc = "r_cmd_hi"
    /\ setCK(1)
    /\ IF ReadCmdClockFalls(i)
       THEN pc' = "r_cmd_lo" /\ UNCHANGED i
       ELSE pc' = (IF i + 1 < 8 THEN "r_cmd_io" ELSE "r_in") /\ i' = i + 1
    /\ UNCHANGED <<fn, testmode, hostVars, todo, reg, n, data, dp, rbuf, exitCode>>

r_cmd_lo ==
    /\ pc = "r_cmd_lo"
    /\ setCK(0)
    /\ i' = i + 1
    /\ pc' = IF i + 1 < 8 THEN "r_cmd_io" ELSE "r_in"
    /\ UNCHANGED <<fn, testmode, hostVars, todo, reg, n, data, dp, rbuf, exitCode>>

\* (r_in leaving the data pin an output)
r_in_output ==
    /\ pc = "r_in"
    /\ pc' = "r_next"
    /\ UNCHANGED <<ce, ck, io, ioDir, chip, obs, fn, testmode, hostVars, todo, reg, i, n,
                   data, dp, rbuf, exitCode>>

\* the last command bit is in, the chip will not drive until the clock
\* falls: switch the pin to input first
r_in ==
    /\ pc = "r_in"
    /\ setIO2input
    /\ pc' = "r_next"
    /\ UNCHANGED <<fn, testmode, hostVars, todo, reg, i, n, data, dp, rbuf, exitCode>>

\* while( n-- ): start the next data byte
r_next ==
    /\ pc = "r_next"
    /\ n' = n - 1
    /\ IF n # 0
       THEN /\ data' = 0
            /\ i' = 0
            /\ pc' = "r_dat_lo"
       ELSE /\ pc' = "r_end_ce"
            /\ UNCHANGED <<data, i>>
    /\ UNCHANGED <<ce, ck, io, ioDir, chip, obs, fn, testmode, hostVars, todo, reg, dp,
                   rbuf, exitCode>>

r_dat_lo ==
    /\ pc = "r_dat_lo"
    /\ setCK(0)
    /\ pc' = "r_dat_rd"
    /\ UNCHANGED <<fn, testmode, hostVars, todo, reg, i, n, data, dp, rbuf, exitCode>>

\* sample the data pin into the top bit
r_dat_rd ==
    /\ pc = "r_dat_rd"
    /\ LET d == ShiftIn(data, Line) IN
       /\ data' = d
       /\ IF ReadClockRises(i, n)
          THEN pc' = "r_dat_hi" /\ UNCHANGED <<i, rbuf>>
          ELSE /\ i' = i + 1
               /\ IF i + 1 < 8
                  THEN pc' = "r_dat_lo" /\ UNCHANGED rbuf
                  ELSE pc' = "r_next" /\ rbuf' = Append(rbuf, d)
    /\ obs' = [obs EXCEPT !.samples = @ + 1, !.ops = @ + 1]
    /\ UNCHANGED <<ce, ck, io, ioDir, chip, fn, testmode, hostVars, todo, reg, n, dp,
                   exitCode>>

r_dat_hi ==
    /\ pc = "r_dat_hi"
    /\ setCK(1)
    /\ i' = i + 1
    /\ IF i + 1 < 8
       THEN pc' = "r_dat_lo" /\ UNCHANGED rbuf
       ELSE pc' = "r_next" /\ rbuf' = Append(rbuf, data)
    /\ UNCHANGED <<fn, testmode, hostVars, todo, reg, n, data, dp, exitCode>>

r_end_ce ==
    /\ pc = "r_end_ce"
    /\ setCE(0)
    /\ pc' = "r_out"
    /\ UNCHANGED <<fn, testmode, hostVars, todo, reg, i, n, data, dp, rbuf, exitCode>>

r_out ==
    /\ pc = "r_out"
    /\ setIO2output
    /\ pc' = "r_end_io"
    /\ UNCHANGED <<fn, testmode, hostVars, todo, reg, i, n, data, dp, rbuf, exitCode>>

\* r_end_io returning without clearing the data pin
r_end_io_noclr ==
    /\ pc = "r_end_io"
    /\ pc' = "call"
    /\ UNCHANGED <<ce, ck, io, ioDir, chip, obs, fn, testmode, hostVars, todo, reg, i, n,
                   data, dp, rbuf, exitCode>>

r_end_io ==
    /\ pc = "r_end_io"
    /\ setIO(0)
    /\ pc' = "call"
    /\ UNCHANGED <<fn, testmode, hostVars, todo, reg, i, n, data, dp, rbuf, exitCode>>

readTOY_pins ==
    \/ r_ck0 \/ r_ce1 \/ r_cmd_io \/ r_cmd_hi \/ r_cmd_lo \/ r_in \/ r_next
    \/ r_dat_lo \/ r_dat_rd \/ r_dat_hi \/ r_end_ce \/ r_out \/ r_end_io

(***************************************************************************)
(* unlockTOY, the RAM test and main's register commands                    *)
(***************************************************************************)

\* (an unlockTOY that looks for the chip in the month register)
unlockTOY_readsMonth ==
    /\ InCall("unlockTOY")
    /\ LET setval == IF testmode THEN TOY_M_WP ELSE 0 IN
       todo' = <<Call("writeTOY", TOY_CTL, 0, <<setval>>),
                 Call("readTOY", TOY_MON + TOY_SCATTER, 0, <<>>),
                 Call("unlockTOY_check", 0, 0, <<setval>>)>> \o Tail(todo)
    /\ UNCHANGED <<ce, ck, io, ioDir, chip, fn, testmode, hostVars, pc, reg, i, n, data,
                   dp, rbuf, exitCode, obs>>

\* Clear WP (keep it set in test mode) and read it back
unlockTOY ==
    /\ InCall("unlockTOY")
    /\ LET setval == IF testmode THEN TOY_M_WP ELSE 0 IN
       todo' = <<Call("writeTOY", TOY_CTL, 0, <<setval>>),
                 Call("readTOY", TOY_CTL + TOY_SCATTER, 0, <<>>),
                 Call("unlockTOY_check", 0, 0, <<setval>>)>> \o Tail(todo)
    /\ UNCHANGED <<ce, ck, io, ioDir, chip, fn, testmode, hostVars, pc, reg, i, n, data,
                   dp, rbuf, exitCode, obs>>

\* (an unlockTOY that goes on whatever it reads back)
unlockTOY_check_pass ==
    /\ InCall("unlockTOY_check")
    /\ todo' = Tail(todo)
    /\ UNCHANGED <<ce, ck, io, ioDir, chip, fn, testmode, hostVars, pc, reg, i, n, data,
                   dp, rbuf, exitCode, obs>>

\* if( ctl != setval ): "No TOY detected"
unlockTOY_check ==
    /\ InCall("unlockTOY_check")
    /\ IF rbuf[1] # Head(todo).data[1]
       THEN pc' = "exit" /\ exitCode' = "EX_CONFIG" /\ UNCHANGED todo
       ELSE todo' = Tail(todo) /\ UNCHANGED <<pc, exitCode>>
    /\ UNCHANGED <<ce, ck, io, ioDir, chip, fn, testmode, hostVars, reg, i, n, data, dp,
                   rbuf, obs>>

dataPatterns ==
    <<0, 255, 85, 170,
      128, 64, 32, 16, 8, 4, 2, 1,
      127, 191, 223, 239, 247, 251, 253, 254>>

\* pbuf for test number tnum: the pattern, then the pattern with the odd
\* addresses inverted; last, the inverted address
TestPattern(tnum) ==
    IF tnum < 2 * Len(dataPatterns)
    THEN LET p == dataPatterns[(tnum \div 2) + 1] IN
         [a \in 1..TOY_RAM_REGS |->
             IF tnum % 2 = 1 /\ (a - 1) % 2 = 1 THEN 255 - p ELSE p]
    ELSE [a \in 1..TOY_RAM_REGS |-> TOY_RAM_REGS - (a - 1)]

\* one pass of testTOYram's loop (two patterns); after the loop the
\* address pattern, then the RAM is cleared
testTOYram ==
    /\ InCall("testTOYram")
    /\ LET tnum == Head(todo).n IN
       IF testmode
       THEN pc' = "exit" /\ exitCode' = "EX_USAGE" /\ UNCHANGED todo
       ELSE /\ UNCHANGED <<pc, exitCode>>
            /\ todo' =
                IF tnum < 2 * Len(dataPatterns)
                THEN <<Call("testTOYramPattern", 0, tnum, TestPattern(tnum)),
                       Call("testTOYramPattern", 0, tnum + 1, TestPattern(tnum + 1)),
                       Call("testTOYram", 0, tnum + 2, <<>>)>> \o Tail(todo)
                ELSE <<Call("testTOYramPattern", 0, tnum, TestPattern(tnum)),
                       Call("unlockTOY", 0, 0, <<>>),
                       Call("writeTOY", TOY_RBURST + TOY_GATHER, TOY_RAM_REGS,
                            [a \in 1..TOY_RAM_REGS |-> 0]),
                       Call("writeTOY", TOY_CTL, 0, <<TOY_M_WP>>)>> \o Tail(todo)
    /\ UNCHANGED <<ce, ck, io, ioDir, chip, fn, testmode, hostVars, reg, i, n, data, dp,
                   rbuf, obs>>

\* (testTOYramPattern leaving the chip unlocked behind the pattern)
testTOYramPattern_nolock ==
    /\ InCall("testTOYramPattern")
    /\ LET pattern == Head(todo).data IN
       todo' = <<Call("unlockTOY", 0, 0, <<>>),
                 Call("writeTOY", TOY_RBURST + TOY_GATHER, TOY_RAM_REGS, pattern),
                 Call("readTOY", TOY_RBURST, TOY_RAM_REGS, <<>>),
                 Call("testTOYramPattern_check", 0, Head(todo).n, pattern)>>
               \o Tail(todo)
    /\ UNCHANGED <<ce, ck, io, ioDir, chip, fn, testmode, hostVars, pc, reg, i, n, data,
                   dp, rbuf, exitCode, obs>>

\* write, read and verify a single pattern
testTOYramPattern ==
    /\ InCall("testTOYramPattern")
    /\ LET pattern == Head(todo).data IN
       todo' = <<Call("unlockTOY", 0, 0, <<>>),
                 Call("writeTOY", TOY_RBURST + TOY_GATHER, TOY_RAM_REGS, pattern),
                 Call("writeTOY", TOY_CTL, 0, <<TOY_M_WP>>),
                 Call("readTOY", TOY_RBURST, TOY_RAM_REGS, <<>>),
                 Call("testTOYramPattern_check", 0, Head(todo).n, pattern)>>
               \o Tail(todo)
    /\ UNCHANGED <<ce, ck, io, ioDir, chip, fn, testmode, hostVars, pc, reg, i, n, data,
                   dp, rbuf, exitCode, obs>>

\* memcmp( pattern, rbuf ): "-Failed" exits
testTOYramPattern_check ==
    /\ InCall("testTOYramPattern_check")
    /\ IF rbuf # Head(todo).data
       THEN pc' = "exit" /\ exitCode' = "EX_IOERR" /\ UNCHANGED todo
       ELSE todo' = Tail(todo) /\ UNCHANGED <<pc, exitCode>>
    /\ UNCHANGED <<ce, ck, io, ioDir, chip, fn, testmode, hostVars, reg, i, n, data, dp,
                   rbuf, obs>>

(***************************************************************************)
(* main: the commands that only move register or RAM bytes                 *)
(***************************************************************************)

BusFunctions == {F_HALT, F_READRAM, F_SETRAM, F_READTCS, F_SETTCS, F_TESTRAM}

main ==
    /\ pc = "main"
    /\ fn \in BusFunctions
    /\ pc' = "call"
    /\ \/ /\ fn = F_HALT
          /\ todo' = <<Call("unlockTOY", 0, 0, <<>>),
                       Call("writeTOY", TOY_SEC, 0, <<TOY_M_HALT>>),
                       Call("writeTOY", TOY_CTL, 0, <<TOY_M_WP>>)>>
       \/ /\ fn = F_READRAM
          /\ todo' = <<Call("readTOY", TOY_RBURST, TOY_RAM_REGS, <<>>)>>
       \/ /\ fn = F_SETRAM
          /\ \E ramaddr \in {0, TOY_RAM_REGS - 1}, d \in {90} :
                todo' = <<Call("unlockTOY", 0, 0, <<>>),
                          Call("writeTOY", TOY_RAM_BASE + 2 * ramaddr, 0, <<d>>),
                          Call("writeTOY", TOY_CTL, 0, <<TOY_M_WP>>)>>
       \/ /\ fn = F_READTCS
          /\ todo' = <<Call("readTOY", TOY_TCS, 0, <<>>)>>
       \/ /\ fn = F_SETTCS
          /\ \E d \in {TOY_M_TCS_DISABLE, TOY_M_TCS_1D_2K} :
                todo' = <<Call("unlockTOY", 0, 0, <<>>),
                          Call("writeTOY", TOY_TCS, 0, <<d>>),
                          Call("writeTOY", TOY_CTL, 0, <<TOY_M_WP>>)>>
       \/ /\ fn = F_TESTRAM
          /\ todo' = <<Call("testTOYram", 0, 0, <<>>)>>
    /\ UNCHANGED <<ce, ck, io, ioDir, chip, fn, testmode, hostVars, reg, i, n, data, dp,
                   rbuf, exitCode, obs>>

\* exit( EX_OK )
mainExit ==
    /\ pc = "call"
    /\ todo = <<>>
    /\ pc' = "exit"
    /\ exitCode' = "EX_OK"
    /\ UNCHANGED <<ce, ck, io, ioDir, chip, fn, testmode, hostVars, todo, reg, i, n, data,
                   dp, rbuf, obs>>

(***************************************************************************)
(* The host side: time values, the calibration record, the record of what  *)
(* the program has done                                                    *)
(***************************************************************************)

\* the host clock advances in steps of 1/Res second
Res == 2

\* a struct timespec, or a long double time: whole seconds and 1/Res parts
Ts(s, f) == [sec |-> s, frac |-> f]

\* a - b in units of 1/Res second
TsDiff(a, b) == (a.sec - b.sec) * Res + (a.frac - b.frac)

\* a - b as whole seconds, rounded down, and the 1/Res parts left over
TsSpan(a, b) ==
    LET borrow == IF a.frac < b.frac THEN 1 ELSE 0 IN
    [sec |-> a.sec - b.sec - borrow, frac |-> a.frac - b.frac + borrow * Res]

\* a drift rate, seconds per second, as the quotient it was computed from
Rate(num, den) == [num |-> num, den |-> den]

\* memset( calib, 0, sizeof( *calib ) )
NoCalib == [valid |-> 0, lastset |-> Ts(0, 0), driftrate |-> Rate(0, 1)]

\* no file of that name
NoFile == [exists |-> FALSE]

\* a file holding a calibration record; ok: its three lines parse
CalibFile(ok, lastset, driftrate) ==
    [exists |-> TRUE, ok |-> ok, lastset |-> lastset, driftrate |-> driftrate]

\* memset( &newtime, 0, sizeof(newtime) )
NoTm == [sec |-> 0, min |-> 0, hour |-> 0, mday |-> 0, mon |-> 0, year |-> 0,
         wday |-> 0]

\* nothing done yet: burst reads and seconds comparisons, writes to the chip,
\* to the calibration file and to the system clock, the register sets given
\* to decodeTOY, the seconds values of the last two burst reads, the message
\* printed on failure, why readUpdate / the drift fit gave up, the host time
\* of the last burst read and of the clock burst write, and the step of
\* writeCalib that failed
NoEv == [reads |-> 0, cmps |-> 0, writes |-> 0, calibWrites |-> 0,
         setTimes |-> 0, decoded |-> <<>>, prevsec |-> -1, lastsec |-> -1,
         msg |-> "none", ruFail |-> "none", fitFail |-> "none",
         readAt |-> Ts(0, 0), wroteAt |-> Ts(0, 0), ioFail |-> "none"]

\* the surroundings: osc "run" (the seconds advance), "stuck" (they never
\* do), "late" (they do at some time, however late); quiet: burst reads
\* since the seconds last advanced; the seconds ticks, host clock steps and
\* contact losses that may still happen; ntp: the kernel clock is
\* synchronized
Env(osc, ticks, steps, faults, ntp) ==
    [osc |-> osc, quiet |-> 0, ticks |-> ticks, steps |-> steps,
     faults |-> faults, ntp |-> ntp]

\* the register and RAM commands use none of the host side
HostIdle ==
    /\ force = FALSE /\ calrundays = MIN_CAL_RUNDAYS /\ hour12 = FALSE
    /\ calibfilename = "NULL"
    /\ sysclock = Ts(0, 0) /\ cfile = NoFile /\ bfile = NoFile /\ tfile = NoFile
    /\ newtime = NoTm /\ newt = 0 /\ stime = Ts(0, 0) /\ etime = Ts(0, 0)
    /\ calib = NoCalib /\ clkregs = <<>> /\ firstsec = 0 /\ try = 0
    /\ toytime = 0
    /\ env = Env("run", 0, 0, 0, FALSE)
    /\ ev = NoEv

(***************************************************************************)
(* SpecBus                                                                 *)
(***************************************************************************)

\* register contents of a chip that has been running / one left halted and
\* unlocked
ChipRegsRunning == <<69, 0, 16, 21, 1, 1, 35, 128>>
ChipRegsHalted == <<197, 0, 16, 21, 1, 1, 35, 0>>

ChipInit(present, regs) ==
    [present |-> present, phase |-> "idle", sr |-> 0, cnt |-> 0, cmd |-> 0,
     idx |-> 0, out |-> HiZ, hold |-> <<>>, regs |-> regs,
     tcs |-> TOY_M_TCS_DISABLE, ram |-> [a \in 1..TOY_RAM_REGS |-> 165]]

\* byte counts a caller may pass for a RAM burst, in and out of range
RamCounts == {-1, 0, 1, 2, TOY_RAM_REGS, TOY_RAM_REGS + 1}

\* single transfers, as any caller of readTOY / writeTOY may request them
DirectCalls ==
    {Call("readTOY", r, 0, <<>>) : r \in {TOY_CBURST, TOY_SEC, TOY_CTL + TOY_SCATTER}}
    \cup {Call("readTOY", TOY_RBURST, c, <<>>) : c \in RamCounts}
    \cup {Call("writeTOY", TOY_CBURST + TOY_GATHER, 0, ChipRegsRunning)}
    \cup {Call("writeTOY", TOY_CTL, 0, <<0>>)}
    \cup {Call("writeTOY", TOY_RBURST + TOY_GATHER, c, [a \in 1..c |-> 60]) : c \in RamCounts}

InitBus ==
    /\ ce \in {0, 1} /\ ck \in {0, 1} /\ io \in {0, 1}
    /\ ioDir \in {"out", "in"}
    /\ \E present \in BOOLEAN, regs \in {ChipRegsRunning, ChipRegsHalted} :
          chip = ChipInit(present, regs)
    /\ testmode \in BOOLEAN
    /\ \/ fn \in BusFunctions /\ todo = <<>>
       \/ fn = -1 /\ todo \in {<<c>> : c \in DirectCalls}
    /\ pc = "initIO"
    /\ reg = 0 /\ i = 0 /\ n = 0 /\ data = 0 /\ dp = <<>> /\ rbuf = <<>>
    /\ exitCode = "none"
    /\ obs = NoObs
    /\ HostIdle

NextBus ==
    \/ initIO \/ main \/ mainExit
    \/ writeTOY \/ writeTOY_pins
    \/ readTOY \/ readTOY_pins
    \/ unlockTOY \/ unlockTOY_check
    \/ testTOYram \/ testTOYramPattern \/ testTOYramPattern_check

SpecBus == InitBus /\ [][NextBus]_vars

(***************************************************************************)
(* Properties of the bit transport (SpecBus)                               *)
(***************************************************************************)

InRead ==
    pc \in {"r_ck0", "r_ce1", "r_cmd_io", "r_cmd_hi", "r_cmd_lo", "r_in",
            "r_next", "r_dat_lo", "r_dat_rd", "r_dat_hi", "r_end_ce", "r_out",
            "r_end_io"}

InWrite ==
    pc \in {"w_ck0", "w_ce1", "w_cmd_io", "w_cmd_hi", "w_cmd_lo", "w_next",
            "w_dat_io", "w_dat_hi", "w_dat_lo", "w_end_io", "w_end_ce"}

BusIdle == ce = 0 /\ ck = 0 /\ ioDir = "out" /\ io = 0

\* C1: in every readTOY transfer the data pin is turned from output to input
\* exactly once, after the rising clock edge of the 8th command bit and
\* before the following falling edge (8 rising and 7 falling edges seen, the
\* clock still high, and no falling edge ever happens later in the transfer
\* with the pin still an output); it is turned back to output only when
\* chip-enable is already low.
C1_TurnaroundStep ==
    /\ (ioDir = "out" /\ ioDir' = "in") =>
          /\ InRead /\ ce = 1 /\ ck = 1
          /\ obs.rises = 8 /\ obs.falls = 7 /\ obs.toIn = 0
    /\ (InRead /\ ioDir = "in" /\ ioDir' = "out") => ce = 0
    /\ (InRead /\ ce = 1 /\ ck = 1 /\ ck' = 0 /\ obs.rises >= 8) => ioDir = "in"
    /\ (InRead /\ pc' = "call") => obs.toIn = 1

C1_ReadTurnsDataPinOnce == [][C1_TurnaroundStep]_vars

C1_Witness ==
    /\ pc = "call" /\ obs.rd /\ obs.reg = TOY_CBURST /\ obs.toIn = 1
    /\ Len(rbuf) = TOY_CLK_REGS /\ ioDir = "out"

\* C2: a RAM burst read or write whose byte count is outside 1..TOY_RAM_REGS
\* ends the program with the internal-error status in the very step that
\* enters the transfer, with chip-enable, clock, data and the data direction
\* untouched.
C2_BadCall ==
    /\ pc = "call" /\ todo # <<>>
    /\ Head(todo).f \in {"readTOY", "writeTOY"}
    /\ Byte(Head(todo).reg) = TOY_RBURST
    /\ Head(todo).n \notin 1..TOY_RAM_REGS

C2_BadRamCountRejected ==
    [][C2_BadCall => (/\ pc' = "exit" /\ exitCode' = "EX_SOFTWARE"
                      /\ UNCHANGED <<pins, chip>>)]_vars

C2_Witness ==
    /\ pc = "exit" /\ exitCode = "EX_SOFTWARE"
    /\ Head(todo).n = TOY_RAM_REGS + 1 /\ BusIdle

\* C3: a transfer addressed to the clock burst register keeps chip-enable
\* high from the command byte until exactly 8 data bytes (64 data bits) have
\* been shifted; a chip that is written a clock burst has received all 8
\* registers when chip-enable falls.
C3_DataBits == IF obs.rd THEN obs.samples ELSE obs.rises - 8

C3_BurstStep ==
    /\ ((InRead \/ InWrite) /\ obs.reg = TOY_CBURST /\ ce = 1 /\ ce' = 0) =>
          C3_DataBits = 8 * 8
    /\ (ce = 1 /\ ce' = 0 /\ chip.phase = "wr" /\ ~ChipIsRam(chip)
        /\ ChipAddr(chip) = 31) => Len(chip.hold) = 8

C3_ClockBurstIsEightBytes == [][C3_BurstStep]_vars

C3_Witness ==
    /\ pc = "call" /\ ~obs.rd /\ obs.reg = TOY_CBURST /\ obs.rises = 72
    /\ chip.present /\ ce = 0

\* C4: whenever the program is outside readTOY and writeTOY after initIO,
\* in particular where it exits with a failure, the bus is idle:
\* chip-enable low, clock low, data pin an output driving low.
C4_BusIdleOutsideTransfers ==
    pc \in {"main", "call", "exit"} => BusIdle

C4_Witness ==
    /\ pc = "exit" /\ exitCode = "EX_CONFIG" /\ obs.rd /\ obs.ops > 0 /\ BusIdle

\* C5: in the RAM test, with a chip present, every pattern written by a
\* 31-byte RAM burst (after unlockTOY, followed by the relock) is read back
\* by the 31-byte RAM burst byte for byte.
C5_RamRoundTrip ==
    (InCall("testTOYramPattern_check") /\ chip.present) =>
        /\ Len(rbuf) = TOY_RAM_REGS
        /\ \A a \in 1..TOY_RAM_REGS : rbuf[a] = Head(todo).data[a]

\* the walking-one pattern 0x01 with the odd addresses inverted
C5_Witness ==
    /\ InCall("testTOYramPattern_check") /\ chip.present
    /\ Head(todo).n = 23
    /\ rbuf[1] = 1 /\ rbuf[2] = 254 /\ rbuf[TOY_RAM_REGS] = 1

\* a command of main starts a transfer: the call at the head of todo
TransferStarts ==
    fn \in BusFunctions /\ pc = "call" /\ pc' \in {"w_ck0", "r_ck0"}

\* r addresses one of the clock registers seconds..control by itself
SingleClockReg(r) == Byte(r) \in TOY_SEC .. (TOY_CTL + TOY_READ)

\* C27 as stated: no command starts a transfer to a single clock register;
\* the clock registers move only in the 8-register burst.
C27_OnlyBursts ==
    [][TransferStarts => ~SingleClockReg(Head(todo).reg)]_vars

\* C27: the only transfers a command makes to a single clock register are
\* the control register's write and read-back in unlockTOY, the control
\* register's write that sets write protect again, and the halt command's
\* write of the seconds register alone (the halt bit, seconds 0); the time
\* of day is never moved in single-register transfers.
C27_SingleStep ==
    (TransferStarts /\ SingleClockReg(Head(todo).reg)) =>
        LET c == Head(todo) IN
        \/ /\ c.f = "writeTOY" /\ c.reg = TOY_CTL
           /\ c.data \in {<<0>>, <<TOY_M_WP>>}
        \/ /\ c.f = "readTOY" /\ Byte(c.reg) = TOY_CTL
           /\ Len(todo) > 1 /\ todo[2].f = "unlockTOY_check"
           /\ ~obs.rd /\ obs.reg = TOY_CTL
        \/ /\ fn = F_HALT /\ c.f = "writeTOY" /\ c.reg = TOY_SEC
           /\ c.data = <<TOY_M_HALT>>

C27_SingleClockTransfers == [][C27_SingleStep]_vars

\* the halt's write of the seconds register has stopped a running chip
C27_Witness ==
    /\ fn = F_HALT /\ pc = "call" /\ ~obs.rd /\ obs.reg = TOY_SEC
    /\ obs.rises = 16 /\ chip.present /\ ~testmode
    /\ chip.regs[1 + OFFSET(TOY_SEC)] = TOY_M_HALT
    /\ chip.regs[1 + OFFSET(TOY_MIN)] = ChipRegsRunning[1 + OFFSET(TOY_MIN)]

\* C28: unlockTOY ends the program with EX_CONFIG ("No TOY detected") when
\* the control register reads back other than it was written; and every
\* transfer by which a command writes data (a clock register other than
\* control, RAM, the trickle charger) starts right after a read of the
\* control register that returned the value unlockTOY wrote.
C28_UnlockStep ==
    LET setval == IF testmode THEN TOY_M_WP ELSE 0 IN
    /\ (InCall("unlockTOY_check") /\ rbuf # <<setval>>) =>
          (pc' = "exit" /\ exitCode' = "EX_CONFIG" /\ todo' = todo)
    /\ (TransferStarts /\ Head(todo).f = "writeTOY"
        /\ Byte(Head(todo).reg) # TOY_CTL) =>
          /\ obs.rd /\ obs.reg = TOY_CTL /\ obs.samples = 8
          /\ rbuf = <<setval>>

C28_WritesFollowUnlock == [][C28_UnlockStep]_vars

\* a RAM byte is being written behind a read-back of 0 from a chip whose
\* write protect was set
C28_Witness ==
    /\ fn = F_SETRAM /\ InWrite /\ obs.reg = TOY_RAM_BASE /\ obs.rises = 8
    /\ rbuf = <<0>> /\ chip.present /\ ~ChipWP(chip)

\* the byte on the wire for the transfer in progress: the register address
\* without the gather/scatter flag, its bit 0 set in a read
CommandByte == IF obs.rd THEN 2 * (obs.reg \div 2) + TOY_READ ELSE obs.reg

\* C30: a chip on the bus receives the command byte least significant bit
\* first, one bit on each of the first 8 rising clock edges of a transfer:
\* the register address the caller passed without the gather/scatter flag,
\* bit 7 set, bit 0 clear in writeTOY and set in readTOY.
C30_CommandByteOnWire ==
    ((InRead \/ InWrite) /\ chip.present /\ ce = 1) =>
        /\ Bit(CommandByte, 7) = 1
        /\ Bit(CommandByte, 0) = (IF obs.rd THEN 1 ELSE 0)
        /\ IF obs.rises < 8
           THEN /\ chip.phase = "cmd" /\ chip.cnt = obs.rises
                /\ chip.sr = CommandByte % (2 ^ obs.rises)
           ELSE /\ chip.phase = (IF obs.rd THEN "rd" ELSE "wr")
                /\ chip.cmd = CommandByte
                /\ ChipIsRead(chip) = obs.rd

\* unlockTOY's read-back, called with TOY_CTL | TOY_SCATTER, has put the
\* read command for the control register on the wire
C30_Witness ==
    /\ fn = F_SETTCS /\ pc = "r_in" /\ chip.present /\ obs.rises = 8
    /\ chip.cmd = TOY_CTL + TOY_READ /\ chip.phase = "rd"

\* C31: the clock moves only while chip-enable is high.  When chip-enable
\* falls at the end of a writeTOY of n data bytes the clock has risen and
\* fallen 8*(n+1) times.  In readTOY the command phase ends after 8 rising
\* (and 7 falling) edges; the data phase has 8*n falling edges, each
\* followed by one sample of the data pin before the clock moves again;
\* the clock is not raised after the last sample, so it is low when
\* chip-enable falls.
C31_EdgeStep ==
    /\ ((InRead \/ InWrite) /\ ck' # ck) => ce = 1
    /\ (InWrite /\ ce = 1 /\ ce' = 0) =>
          /\ obs.rises = 8 * (obs.n + 1) /\ obs.falls = 8 * (obs.n + 1)
          /\ ck = 0
    /\ (InRead /\ ioDir = "out" /\ ioDir' = "in") =>
          obs.rises = 8 /\ obs.falls = 7 /\ obs.samples = 0
    /\ (InRead /\ obs.rises >= 8 /\ ck = 1 /\ ck' = 0) =>
          obs.samples = obs.falls - 7 /\ pc' = "r_dat_rd"
    /\ (InRead /\ obs'.samples # obs.samples) =>
          obs'.samples = obs.falls - 7 /\ ck = 0
    /\ (InRead /\ obs.rises >= 8 /\ ck = 0 /\ ck' = 1) =>
          obs.samples = obs.falls - 7 /\ obs.samples < 8 * obs.n
    /\ (InRead /\ ce = 1 /\ ce' = 0) =>
          /\ obs.falls = 7 + 8 * obs.n /\ obs.samples = 8 * obs.n
          /\ obs.rises = 8 + 8 * obs.n - 1
          /\ ck = 0

C31_ClockEdges == [][C31_EdgeStep]_vars

\* the RAM has been read in one burst of 31 bytes
C31_Witness ==
    /\ pc = "call" /\ obs.rd /\ obs.reg = TOY_RBURST /\ obs.n = TOY_RAM_REGS
    /\ obs.samples = 8 * TOY_RAM_REGS /\ Len(rbuf) = TOY_RAM_REGS
    /\ ck = 0 /\ ce = 0

\* C32: in readTOY and writeTOY chip-enable is raised only while the clock
\* is low, and while chip-enable is high the level the host drives on the
\* data pin changes only while the clock is low.
C32_SetupStep ==
    (InRead \/ InWrite) =>
        /\ (ce = 0 /\ ce' = 1) => (ck = 0 /\ ck' = 0)
        /\ (ce = 1 /\ io' # io) => (ck = 0 /\ ck' = 0 /\ ioDir = "out")

C32_DataChangesWhileClockLow == [][C32_SetupStep]_vars

\* a data bit of 1 has been put on the pin behind a 0, the clock still low
C32_Witness ==
    /\ pc = "w_dat_hi" /\ ce = 1 /\ ck = 0 /\ io = 1 /\ i = 1
    /\ obs.rises = 9 /\ dp = <<>>

\* C33: from the falling clock edge after the command byte of a readTOY
\* until chip-enable falls the host's data pin is an input; the chip drives
\* the line only within that interval, so the line never has two drivers.
C33_OneDriver ==
    /\ (InRead /\ ce = 1 /\ obs.falls >= 8) => ioDir = "in"
    /\ (chip.present /\ chip.out # HiZ) =>
          (InRead /\ ce = 1 /\ obs.falls >= 8 /\ ioDir = "in")

\* the chip drives a 1 that the host is about to sample
C33_Witness ==
    /\ pc = "r_dat_rd" /\ chip.present /\ chip.out = 1 /\ ioDir = "in"
    /\ ce = 1 /\ ck = 0


(***************************************************************************)

SecsPerDay == 24 * 60 * 60

\* the largest time_t, 2^31 - 1
TimeMax == (2 ^ 30 - 1) * 2 + 1

IsLeap(y) == y % 4 = 0 /\ (y % 100 # 0 \/ y % 400 = 0)

LeapsBefore(y) == (y - 1) \div 4 - (y - 1) \div 100 + (y - 1) \div 400

\* days from 1970-01-01 to the first day of year y
DaysToYear(y) == 365 * (y - 1970) + LeapsBefore(y) - LeapsBefore(1970)

\* days from the first day of year y to the first day of its month m (0..11)
DaysToMonth(y, m) ==
    <<0, 31, 59, 90, 120, 151, 181, 212, 243, 273, 304, 334>>[m + 1]
    + (IF IsLeap(y) /\ m >= 2 THEN 1 ELSE 0)

\* seconds since the epoch of a broken-down UTC time, its fields normalised;
\* -1 when a time_t cannot hold the result
timegm(tm) ==
    LET months == tm.year * 12 + tm.mon
        y == 1900 + months \div 12
        m == months % 12
        secs == tm.hour * 3600 + tm.min * 60 + tm.sec
        days == DaysToYear(y) + DaysToMonth(y, m) + (tm.mday - 1)
                + secs \div SecsPerDay
        rem == secs % SecsPerDay
    IN  IF days < 0 \/ days > TimeMax \div SecsPerDay
           \/ (days = TimeMax \div SecsPerDay /\ rem > TimeMax % SecsPerDay)
        THEN -1
        ELSE days * SecsPerDay + rem

\* the broken-down UTC time of t >= 0
gmtime_r(t) ==
    LET days == t \div SecsPerDay
        rem == t % SecsPerDay
        y == CHOOSE yy \in 1970..2038 :
                DaysToYear(yy) <= days /\ days < DaysToYear(yy + 1)
        yd == days - DaysToYear(y)
        m == CHOOSE mm \in 0..11 :
                /\ DaysToMonth(y, mm) <= yd
                /\ (mm = 11 \/ yd < DaysToMonth(y, mm + 1))
    IN  [sec |-> rem % 60, min |-> (rem \div 60) % 60, hour |-> rem \div 3600,
         mday |-> yd - DaysToMonth(y, m) + 1, mon |-> m, year |-> y - 1900,
         wday |-> (days + 4) % 7]

(***************************************************************************)
(* Civil-time codec                                                        *)
(***************************************************************************)

\* the byte of register r in a clock burst
RegOf(regs, r) == regs[1 + OFFSET(r)]

\* (a decoding that takes no notice of the PM bit)
decodeHourNoPM(hr) ==
    IF BitAnd(hr, TOY_M_12HR) # 0
    THEN LET h == BIN(BitAnd(hr, TOY_M_HR12)) IN (IF h = 12 THEN 0 ELSE h)
    ELSE BIN(BitAnd(hr, TOY_M_HR24))

\* the hour a register set holds, 0..23 for a valid one
decodeHour(hr) ==
    IF BitAnd(hr, TOY_M_12HR) # 0
    THEN LET h == BIN(BitAnd(hr, TOY_M_HR12)) IN
         IF BitAnd(hr, TOY_M_PM) # 0
         THEN (IF h # 12 THEN h + 12 ELSE h)
         ELSE (IF h = 12 THEN 0 ELSE h)
    ELSE BIN(BitAnd(hr, TOY_M_HR24))

\* the epoch time of a register set, -1 when timegm() fails
decodeTOY(regs) ==
    timegm([sec  |-> BIN(BitAnd(RegOf(regs, TOY_SEC), TOY_M_SEC)),
            min  |-> BIN(BitAnd(RegOf(regs, TOY_MIN), TOY_M_MIN)),
            hour |-> decodeHour(RegOf(regs, TOY_HR)),
            mday |-> BIN(RegOf(regs, TOY_DAY)),
            mon  |-> BIN(RegOf(regs, TOY_MON)) - 1,
            wday |-> BIN(RegOf(regs, TOY_WDY)) - 1,
            year |-> BIN(RegOf(regs, TOY_YR)) + 2000 - 1900])

\* (an encoding that writes noon as 12 AM)
encodeHourNoon(hour, h12) ==
    IF h12
    THEN IF hour = 0 \/ hour = 12 THEN TOY_M_12HR + BCD(12)
         ELSE IF hour > 12 THEN TOY_M_12HR + TOY_M_PM + BCD(hour - 12)
         ELSE TOY_M_12HR + BCD(hour)
    ELSE BCD(hour)

\* the hour register for tm_hour
encodeHour(hour, h12) ==
    IF h12
    THEN IF hour = 0 THEN TOY_M_12HR + BCD(12)
         ELSE IF hour = 12 THEN TOY_M_12HR + TOY_M_PM + BCD(12)
         ELSE IF hour > 12 THEN TOY_M_12HR + TOY_M_PM + BCD(hour - 12)
         ELSE TOY_M_12HR + BCD(hour)
    ELSE BCD(hour)

\* (a register set with the control byte left clear)
encodeTOYNoWP(tm, h12) ==
    <<BCD(tm.sec), BCD(tm.min), encodeHour(tm.hour, h12), BCD(tm.mday),
      BCD(tm.mon + 1), BCD(tm.wday + 1), BCD((tm.year + 1900) % 100), 0>>

\* the register set setTOY writes for a broken-down time: CH clear, WP set
encodeTOY(tm, h12) ==
    <<BCD(tm.sec), BCD(tm.min), encodeHour(tm.hour, h12), BCD(tm.mday),
      BCD(tm.mon + 1), BCD(tm.wday + 1), BCD((tm.year + 1900) % 100),
      TOY_M_WP>>

(***************************************************************************)
(* The clock commands.  A transfer is one step here: the bytes it moves    *)
(* are those the bit transport moves, the pins are idle before and after.  *)
(***************************************************************************)

RECURSIVE ChipStoreAll(_, _)
ChipStoreAll(c, bytes) ==
    IF bytes = <<>> THEN c
    ELSE ChipStoreAll(ChipStore(c, Head(bytes)), Tail(bytes))

\* the chip after writeTOY( r, bytes )
Written(c, r, bytes) ==
    IF c.present
    THEN ChipDeselect(ChipStoreAll([ChipSelect(c, 0) EXCEPT
                                       !.phase = "wr", !.cmd = Byte(r)],
                                   bytes))
    ELSE c

\* the bytes readTOY( r, ... ) returns; an undriven data line reads as ones
ReadBack(c, r, cnt) ==
    [k \in 1..cnt |->
        IF c.present
        THEN ChipReadByte([c EXCEPT !.cmd = Byte(r) - (Byte(r) % 2) + TOY_READ,
                                    !.idx = k - 1])
        ELSE 255]

\* the seconds a register set shows
SecOf(regs) == BIN(BitAnd(RegOf(regs, TOY_SEC), TOY_M_SEC))

ChipRuns == chip.present /\ BitAnd(RegOf(chip.regs, TOY_SEC), TOY_M_HALT) = 0

\* a running oscillator advances the seconds at least once in MaxQuiet burst
\* reads
MaxQuiet == 2

\* what readTOY( TOY_CBURST, clkregs ) returns now
BurstRegs == ReadBack(chip, TOY_CBURST, TOY_CLK_REGS)

\* readTOY( TOY_CBURST, clkregs ), and its trace in e
Burst(e) ==
    /\ (env.osc = "run" /\ ChipRuns) => env.quiet < MaxQuiet
    /\ clkregs' = BurstRegs
    /\ env' = [env EXCEPT !.quiet = IF env.osc = "run" THEN @ + 1 ELSE @]
    /\ ev' = [e EXCEPT !.reads = @ + 1, !.prevsec = e.lastsec,
                       !.lastsec = SecOf(clkregs'), !.readAt = sysclock]

\* exit( code ) after printing msg
Exit(code, e, msg) ==
    /\ pc' = "exit"
    /\ exitCode' = code
    /\ ev' = [e EXCEPT !.msg = msg]

(***************************************************************************)
(* The surroundings of the program                                         *)
(***************************************************************************)

\* the chip's seconds advance, carrying into the minutes, where the program
\* is about to read the chip
ChipTick ==
    /\ pc \in {"st_fit", "st_cmp", "st_again", "readUpdate", "ru_cmp",
              "ru_again"}
    /\ env.osc \in {"run", "late"} /\ env.ticks > 0 /\ ChipRuns
    /\ LET sec == BIN(RegOf(chip.regs, TOY_SEC))
           min == BIN(RegOf(chip.regs, TOY_MIN))
       IN  /\ sec < 59 \/ min < 59
           /\ chip' = [chip EXCEPT
                 !.regs[1 + OFFSET(TOY_SEC)] = IF sec < 59 THEN BCD(sec + 1) ELSE 0,
                 !.regs[1 + OFFSET(TOY_MIN)] = IF sec < 59 THEN @ ELSE BCD(min + 1)]
    /\ env' = [env EXCEPT !.ticks = @ - 1, !.quiet = 0]
    /\ UNCHANGED <<pins, fn, testmode, pc, todo, reg, i, n, data, dp, rbuf,
                   exitCode, obs, force, calrundays, hour12, calibfilename,
                   sysclock, cfile, bfile, tfile, newtime, newt, stime, etime, calib,
                   clkregs, firstsec, try, toytime, ev>>

\* the chip loses contact with the data line, here before a read that is
\* compared with the one before it
ChipLost ==
    /\ pc \in {"st_cmp", "ru_cmp"}
    /\ env.faults > 0 /\ chip.present
    /\ chip' = [chip EXCEPT !.present = FALSE]
    /\ env' = [env EXCEPT !.faults = @ - 1]
    /\ UNCHANGED <<pins, fn, testmode, pc, todo, reg, i, n, data, dp, rbuf,
                   exitCode, obs, force, calrundays, hour12, calibfilename,
                   sysclock, cfile, bfile, tfile, newtime, newt, stime, etime, calib,
                   clkregs, firstsec, try, toytime, ev>>

\* the host clock advances, where the program is about to read it
HostStep ==
    /\ pc \in {"setTOY", "st_fitted", "st_commit", "st_write"}
    /\ env.steps > 0
    /\ sysclock' = IF sysclock.frac + 1 < Res
                   THEN Ts(sysclock.sec, sysclock.frac + 1)
                   ELSE Ts(sysclock.sec + 1, 0)
    /\ env' = [env EXCEPT !.steps = @ - 1]
    /\ UNCHANGED <<busVars, force, calrundays, hour12, calibfilename, cfile,
                   bfile, tfile, newtime, newt, stime, etime, calib, clkregs,
                   firstsec, try, toytime, ev>>

(***************************************************************************)
(* main, parseSET                                                          *)
(***************************************************************************)

ClockFunctions == {F_READ, F_SET, F_SET2SYS, F_UPDATE}

\* the host clock when the command starts
Now0 == decodeTOY(ChipRegsRunning)

\* a date argument: the civil time it names, counted in seconds as if it
\* were UTC, and the local zone's offset east of UTC
Date(local, zone) == [local |-> local, zone |-> zone]

\* the times --date asks for: two seconds and three days ahead, two seconds
\* back, half an hour into the year 2000 in a zone an hour east of UTC, and
\* a second before the year 2000 (946684800 is 2000-01-01 00:00:00)
SetTimes ==
    {Date(Now0 + 2, 0), Date(Now0 + 3 * SecsPerDay, 0), Date(Now0 - 2, 0),
     Date(946684800 + 1800, 3600), Date(946684800 - 1, 0)}

\* trytime: the year of the date as written is one the TOY can hold
trytime(d) ==
    LET year == gmtime_r(d.local).year + 1900 IN ~(year < 2000 \/ year >= 2100)

\* mktime: the time_t of a local civil time
mktime(d) == d.local - d.zone

\* --date as given, or the system time at the start of its next second;
\* without --force the system time is taken only if it is synchronized
parseSET ==
    /\ pc = "parseSET"
    /\ \/ /\ fn = F_SET
          /\ \E d \in SetTimes :
                IF trytime(d)
                THEN /\ newtime' = gmtime_r(mktime(d))
                     /\ pc' = "initIO"
                     /\ UNCHANGED <<sysclock, exitCode, ev>>
                ELSE /\ Exit("EX_USAGE", ev, "YearOutOfRange")
                     /\ UNCHANGED <<sysclock, newtime>>
       \/ /\ fn = F_SET2SYS
          /\ IF ~force /\ ~env.ntp
             THEN /\ Exit("EX_CONFIG", ev, "NotSynchronized")
                  /\ UNCHANGED <<sysclock, newtime>>
             ELSE /\ sysclock' = Ts(sysclock.sec + 1, 0)
                  /\ newtime' = gmtime_r(sysclock.sec + 1)
                  /\ pc' = "initIO"
                  /\ UNCHANGED <<exitCode, ev>>
    /\ UNCHANGED <<pins, chip, fn, testmode, todo, reg, i, n, data, dp, rbuf,
                   obs, force, calrundays, hour12, calibfilename, cfile, bfile, tfile,
                   newt, stime, etime, calib, clkregs, firstsec, try, toytime,
                   env>>

\* switch( function ): set and systohc fall through to the read-back
mainClock ==
    /\ pc = "main"
    /\ fn \in ClockFunctions
    /\ pc' = IF fn \in {F_SET, F_SET2SYS} THEN "setTOY" ELSE "readUpdate"
    /\ UNCHANGED <<pins, chip, fn, testmode, todo, reg, i, n, data, dp, rbuf,
                   exitCode, obs, hostVars>>

(***************************************************************************)
(* Calibration Store                                                       *)
(***************************************************************************)

\* (a readCalib that leaves the drift rate zero)
readCalibNoRate ==
    IF calibfilename # "NULL" /\ cfile.exists
    THEN [valid |-> IF cfile.ok THEN 1 ELSE 0, lastset |-> cfile.lastset,
          driftrate |-> Rate(0, 1)]
    ELSE NoCalib

\* (a readCalib that looks for the file whatever its name)
readCalibAnyName ==
    IF cfile.exists
    THEN [valid |-> IF cfile.ok THEN 1 ELSE 0, lastset |-> cfile.lastset,
          driftrate |-> cfile.driftrate]
    ELSE NoCalib

\* the record readCalib fills in: zeroed, then each field as far as the
\* file parses
readCalib ==
    IF calibfilename # "NULL" /\ cfile.exists
    THEN [valid |-> IF cfile.ok THEN 1 ELSE 0, lastset |-> cfile.lastset,
          driftrate |-> cfile.driftrate]
    ELSE NoCalib

(***************************************************************************)
(* Calibration Engine: setTOY                                              *)
(***************************************************************************)

\* calrundays * 24 * 60 * 60 as the unsigned long it is computed in (32
\* bits): d * 86400 mod 2^32, with 86400 = 675 * 128
CalSecs(d) == ((d * 675) % (2 ^ 25)) * 128

\* a valid calibration has not run calrundays yet, and --force is not given
TooYoung(c, st) ==
    /\ c.valid # 0
    /\ ~force
    /\ TsSpan(Ts(st.sec, 0), c.lastset).sec < CalSecs(calrundays)

\* (a test that never finds a fit to be due)
FitDueNever(c, t) == FALSE

\* the requested time is more than calrundays past the last set
FitDue(c, t) ==
    /\ c.valid # 0
    /\ LET span == TsSpan(Ts(t, 0), c.lastset) IN
       \/ span.sec > CalSecs(calrundays)
       \/ span.sec = CalSecs(calrundays) /\ span.frac > 0

setTOY ==
    /\ pc = "setTOY"
    /\ stime' = sysclock
    /\ newt' = timegm(newtime)
    /\ calib' = readCalib
    /\ IF TooYoung(readCalib, sysclock)
       THEN Exit("EX_UNAVAILABLE", ev, "TooYoung")
       ELSE /\ pc' = IF FitDue(readCalib, timegm(newtime)) THEN "st_fit"
                     ELSE "st_commit"
            /\ UNCHANGED <<exitCode, ev>>
    /\ UNCHANGED <<pins, chip, fn, testmode, todo, reg, i, n, data, dp, rbuf,
                   obs, force, calrundays, hour12, calibfilename, sysclock,
                   cfile, bfile, tfile, newtime, etime, clkregs, firstsec, try,
                   toytime, env>>

\* the checks made on a register set
NoDevice(regs) == BitAnd(RegOf(regs, TOY_MON), TOY_M_MON_MBZ) # 0
Halted(regs) == BitAnd(RegOf(regs, TOY_SEC), TOY_M_HALT) # 0

\* the loop's condition, and the test made on its counter afterwards
LoopAgain(count) == count < TOY_MAX_READS
\* (a test that never finds the loop to have given up)
GaveUpNever(count) == FALSE

GaveUp(count) == count >= TOY_MAX_READS

\* the first burst read of the drift fit: is there a chip, is it running
st_fit ==
    /\ pc = "st_fit"
    /\ LET nodev == NoDevice(BurstRegs)
           halted == Halted(BurstRegs)
       IN  /\ Burst([ev EXCEPT !.cmps = 0, !.lastsec = -1,
                        !.msg = IF nodev THEN "NoTOY" ELSE @,
                        !.fitFail = IF ~nodev /\ halted THEN "halted" ELSE @])
           /\ IF nodev
              THEN pc' = "exit" /\ exitCode' = "EX_CONFIG"
              ELSE /\ pc' = IF halted THEN "st_commit" ELSE "st_cmp"
                   /\ UNCHANGED exitCode
    /\ try' = 0
    /\ UNCHANGED <<pins, chip, fn, testmode, todo, reg, i, n, data, dp, rbuf,
                   obs, force, calrundays, hour12, calibfilename, sysclock,
                   cfile, bfile, tfile, newtime, newt, stime, etime, calib, firstsec,
                   toytime>>

\* do { firstsec = ...; readTOY; if( firstsec != ... ) break;
st_cmp ==
    /\ pc = "st_cmp"
    /\ firstsec' = SecOf(clkregs)
    /\ Burst([ev EXCEPT !.cmps = @ + 1])
    /\ pc' = IF SecOf(clkregs) # SecOf(clkregs') THEN "st_fitted" ELSE "st_again"
    /\ UNCHANGED <<pins, chip, fn, testmode, todo, reg, i, n, data, dp, rbuf,
                   exitCode, obs, force, calrundays, hour12, calibfilename,
                   sysclock, cfile, bfile, tfile, newtime, newt, stime, etime, calib,
                   try, toytime>>

\* readTOY; } while( try++ < TOY_MAX_READS );
st_again ==
    /\ pc = "st_again"
    /\ Burst([ev EXCEPT !.fitFail = IF LoopAgain(try) THEN @ ELSE "exhausted"])
    /\ pc' = IF LoopAgain(try) THEN "st_cmp" ELSE "st_fitted"
    /\ try' = try + 1
    /\ UNCHANGED <<pins, chip, fn, testmode, todo, reg, i, n, data, dp, rbuf,
                   exitCode, obs, force, calrundays, hour12, calibfilename,
                   sysclock, cfile, bfile, tfile, newtime, newt, stime, etime, calib,
                   firstsec, toytime>>

\* after the loop: the end time, and the drift rate from the last set to now
\* unless the loop gave up
st_fitted ==
    /\ pc = "st_fitted"
    /\ etime' = sysclock
    /\ IF GaveUp(try)
       THEN /\ pc' = "st_commit"
            /\ UNCHANGED <<calib, exitCode, ev>>
       ELSE LET t == decodeTOY(clkregs)
                e == [ev EXCEPT !.decoded = Append(@, clkregs)]
            IN  IF t = -1
                THEN Exit("EX_OSERR", e, "NoUTC") /\ UNCHANGED calib
                ELSE /\ calib' = [calib EXCEPT !.driftrate =
                                     Rate(TsDiff(Ts(t, 0), sysclock),
                                          TsDiff(sysclock, calib.lastset))]
                     /\ ev' = e
                     /\ pc' = "st_commit"
                     /\ UNCHANGED exitCode
    /\ UNCHANGED <<pins, chip, fn, testmode, todo, reg, i, n, data, dp, rbuf,
                   obs, force, calrundays, hour12, calibfilename, sysclock,
                   cfile, bfile, tfile, newtime, newt, stime, clkregs, firstsec, try,
                   toytime, env>>

\* (an st_commit that stamps the set with the second to come)
st_commit_ahead ==
    /\ pc = "st_commit"
    /\ etime' = sysclock
    /\ calib' = [calib EXCEPT !.lastset = Ts(sysclock.sec + 1, 0)]
    /\ LET t == newt + TsDiff(sysclock, stime) \div Res IN
       /\ newt' = t
       /\ newtime' = gmtime_r(t)
       /\ clkregs' = encodeTOY(gmtime_r(t), hour12)
    /\ pc' = "st_unlock"
    /\ UNCHANGED <<pins, chip, fn, testmode, todo, reg, i, n, data, dp, rbuf,
                   exitCode, obs, force, calrundays, hour12, calibfilename,
                   sysclock, cfile, bfile, tfile, stime, firstsec, try, toytime, env,
                   ev>>

\* the time of this set, the requested time moved by the time spent so far,
\* and the registers to write
st_commit ==
    /\ pc = "st_commit"
    /\ etime' = sysclock
    /\ calib' = [calib EXCEPT !.lastset = sysclock]
    /\ LET t == newt + TsDiff(sysclock, stime) \div Res IN
       /\ newt' = t
       /\ newtime' = gmtime_r(t)
       /\ clkregs' = encodeTOY(gmtime_r(t), hour12)
    /\ pc' = "st_unlock"
    /\ UNCHANGED <<pins, chip, fn, testmode, todo, reg, i, n, data, dp, rbuf,
                   exitCode, obs, force, calrundays, hour12, calibfilename,
                   sysclock, cfile, bfile, tfile, stime, firstsec, try, toytime, env,
                   ev>>

\* (st_unlock clearing WP in test mode as well)
st_unlock_clears ==
    /\ pc = "st_unlock"
    /\ LET setval == 0
           c == Written(chip, TOY_CTL, <<setval>>)
           e == [ev EXCEPT !.writes = @ + 1]
       IN  /\ chip' = c
           /\ IF ReadBack(c, TOY_CTL, 1)[1] # setval
              THEN Exit("EX_CONFIG", e, "NoTOY")
              ELSE pc' = "st_write" /\ ev' = e /\ UNCHANGED exitCode
    /\ UNCHANGED <<pins, fn, testmode, todo, reg, i, n, data, dp, rbuf, obs,
                   force, calrundays, hour12, calibfilename, sysclock, cfile,
                   bfile, tfile, newtime, newt, stime, etime, calib, clkregs,
                   firstsec, try, toytime, env>>

\* unlockTOY: write the control register (WP clear, or set in test mode),
\* read it back
st_unlock ==
    /\ pc = "st_unlock"
    /\ LET setval == IF testmode THEN TOY_M_WP ELSE 0
           c == Written(chip, TOY_CTL, <<setval>>)
           e == [ev EXCEPT !.writes = @ + 1]
       IN  /\ chip' = c
           /\ IF ReadBack(c, TOY_CTL, 1)[1] # setval
              THEN Exit("EX_CONFIG", e, "NoTOY")
              ELSE pc' = "st_write" /\ ev' = e /\ UNCHANGED exitCode
    /\ UNCHANGED <<pins, fn, testmode, todo, reg, i, n, data, dp, rbuf, obs,
                   force, calrundays, hour12, calibfilename, sysclock, cfile,
                   bfile, tfile, newtime, newt, stime, etime, calib, clkregs,
                   firstsec, try, toytime, env>>

\* (a write of the registers that keeps the clock halted)
st_write_halted ==
    /\ pc = "st_write"
    /\ chip' = Written(chip, TOY_CBURST + TOY_GATHER,
                       <<(clkregs[1] % TOY_M_HALT) + TOY_M_HALT>> \o Tail(clkregs))
    /\ ev' = [ev EXCEPT !.writes = @ + 1, !.wroteAt = sysclock]
    /\ calib' = [calib EXCEPT !.valid = 1]
    /\ pc' = "writeCalib"
    /\ UNCHANGED <<pins, fn, testmode, todo, reg, i, n, data, dp, rbuf,
                   exitCode, obs, force, calrundays, hour12, calibfilename,
                   sysclock, cfile, bfile, tfile, newtime, newt, stime, etime,
                   clkregs, firstsec, try, toytime, env>>

\* writeTOY( TOY_CBURST | TOY_GATHER, clkregs ); calib.valid = 1
st_write ==
    /\ pc = "st_write"
    /\ chip' = Written(chip, TOY_CBURST + TOY_GATHER, clkregs)
    /\ ev' = [ev EXCEPT !.writes = @ + 1, !.wroteAt = sysclock]
    /\ calib' = [calib EXCEPT !.valid = 1]
    /\ pc' = "writeCalib"
    /\ UNCHANGED <<pins, fn, testmode, todo, reg, i, n, data, dp, rbuf,
                   exitCode, obs, force, calrundays, hour12, calibfilename,
                   sysclock, cfile, bfile, tfile, newtime, newt, stime, etime,
                   clkregs, firstsec, try, toytime, env>>

\* how a writeCalib can go: all well, the backup cannot be opened, the new
\* file cannot be written or renamed
IoOutcomes == IF env.faults > 0 THEN {"none", "bak", "tmp"} ELSE {"none"}

\* the file, if there is one, is copied to the backup; the new record
\* replaces it.  A failure of the backup ends the program, one of the new
\* file is reported and writeCalib returns.  (The steps in between, and the
\* temporary file, are followed in SpecFile.)
writeCalib ==
    /\ pc = "writeCalib"
    /\ IF calibfilename = "NULL" \/ calib.valid = 0
       THEN /\ pc' = "readUpdate"
            /\ UNCHANGED <<cfile, bfile, ev, env, exitCode>>
       ELSE \E how \in IoOutcomes :
            /\ how = "bak" => cfile.exists
            /\ env' = [env EXCEPT !.faults = IF how = "none" THEN @ ELSE @ - 1]
            /\ IF how = "bak"
               THEN /\ Exit("EX_IOERR", [ev EXCEPT !.ioFail = how], "IOError")
                    /\ UNCHANGED <<cfile, bfile>>
               ELSE /\ bfile' = IF cfile.exists THEN cfile ELSE bfile
                    /\ cfile' = IF how = "tmp" THEN cfile
                              ELSE CalibFile(TRUE, calib.lastset, calib.driftrate)
                    /\ ev' = [ev EXCEPT !.ioFail = how,
                                 !.calibWrites = IF how = "tmp" THEN @ ELSE @ + 1]
                    /\ pc' = "readUpdate"
                    /\ UNCHANGED exitCode
    /\ UNCHANGED <<pins, chip, fn, testmode, todo, reg, i, n, data, dp, rbuf,
                   obs, force, calrundays, hour12, calibfilename,
                   sysclock, tfile, newtime, newt, stime, etime, calib,
                   clkregs, firstsec, try, toytime>>

(***************************************************************************)
(* Calibration Engine: readUpdate                                          *)
(***************************************************************************)

\* (a correction that leaves the chip time as it is)
CorrectedNot(t, c) == t

\* the chip time t with the drift since the last set taken out, rounded to
\* the nearest second (exact arithmetic stands for the long double's)
Corrected(t, c) ==
    IF c.valid = 0 \/ c.driftrate.num = 0 THEN t
    ELSE LET num == c.driftrate.num
             den == c.driftrate.den
             a == IF num < 0 THEN -num ELSE num
             d == IF den < 0 THEN -den ELSE den
             elapsed == TsDiff(Ts(t, 0), c.lastset)
             whole == c.lastset.frac + elapsed
         IN  IF (num < 0) # (den < 0)
             THEN \* lastset + elapsed * (1 + |correction|) + 0.5
                  LET q == (elapsed * a) \div d
                      r == (elapsed * a) % d
                  IN  c.lastset.sec
                      + (2 * (whole + q) + (2 * r) \div d + Res) \div (2 * Res)
             ELSE \* lastset + elapsed / (1 + correction) + 0.5
                  LET q == (elapsed * a) \div (d + a)
                      r == (elapsed * a) % (d + a)
                  IN  c.lastset.sec
                      + (2 * (whole - q) - (2 * r + d + a - 1) \div (d + a) + Res)
                        \div (2 * Res)

\* the first burst read: is there a chip, is it running
readUpdate ==
    /\ pc = "readUpdate"
    /\ calib' = readCalib
    /\ toytime' = 0
    /\ LET nodev == NoDevice(BurstRegs)
           halted == Halted(BurstRegs)
       IN  /\ Burst([ev EXCEPT !.cmps = 0, !.lastsec = -1,
                        !.msg = IF nodev THEN "NoTOY"
                                ELSE IF halted THEN "Halted" ELSE @,
                        !.ruFail = IF ~nodev /\ halted THEN "halted" ELSE @])
           /\ IF nodev THEN pc' = "exit" /\ exitCode' = "EX_CONFIG"
              ELSE IF halted THEN pc' = "exit" /\ exitCode' = "EX_UNAVAILABLE"
              ELSE pc' = "ru_cmp" /\ UNCHANGED exitCode
    /\ UNCHANGED <<pins, chip, fn, testmode, todo, reg, i, n, data, dp, rbuf,
                   obs, force, calrundays, hour12, calibfilename, sysclock,
                   cfile, bfile, tfile, newtime, newt, stime, etime, firstsec, try>>

\* do { firstsec = ...; readTOY; if( firstsec != ... ) break;
ru_cmp ==
    /\ pc = "ru_cmp"
    /\ firstsec' = SecOf(clkregs)
    /\ Burst([ev EXCEPT !.cmps = @ + 1])
    /\ pc' = IF SecOf(clkregs) # SecOf(clkregs') THEN "ru_after" ELSE "ru_again"
    /\ UNCHANGED <<pins, chip, fn, testmode, todo, reg, i, n, data, dp, rbuf,
                   exitCode, obs, force, calrundays, hour12, calibfilename,
                   sysclock, cfile, bfile, tfile, newtime, newt, stime, etime, calib,
                   try, toytime>>

\* readTOY; } while( toytime++ < TOY_MAX_READS );
ru_again ==
    /\ pc = "ru_again"
    /\ Burst([ev EXCEPT !.ruFail = IF LoopAgain(toytime) THEN @ ELSE "exhausted"])
    /\ pc' = IF LoopAgain(toytime) THEN "ru_cmp" ELSE "ru_after"
    /\ toytime' = toytime + 1
    /\ UNCHANGED <<pins, chip, fn, testmode, todo, reg, i, n, data, dp, rbuf,
                   exitCode, obs, force, calrundays, hour12, calibfilename,
                   sysclock, cfile, bfile, tfile, newtime, newt, stime, etime, calib,
                   firstsec, try>>

\* (ru_after setting the system time in test mode as well)
ru_after_testmode ==
    /\ pc = "ru_after"
    /\ IF GaveUp(toytime)
       THEN /\ Exit("EX_IOERR", ev, "NotRunning")
            /\ UNCHANGED <<toytime, sysclock>>
       ELSE LET t == decodeTOY(clkregs)
                e == [ev EXCEPT !.decoded = Append(@, clkregs)]
            IN  IF t = -1
                THEN Exit("EX_OSERR", e, "NoUTC") /\ UNCHANGED <<toytime, sysclock>>
                ELSE /\ toytime' = Corrected(t, calib)
                     /\ IF fn = F_UPDATE
                        THEN /\ sysclock' = Ts(Corrected(t, calib), 0)
                             /\ ev' = [e EXCEPT !.setTimes = @ + 1]
                        ELSE UNCHANGED sysclock /\ ev' = e
                     /\ pc' = "exit"
                     /\ exitCode' = "EX_OK"
    /\ UNCHANGED <<pins, chip, fn, testmode, todo, reg, i, n, data, dp, rbuf,
                   obs, force, calrundays, hour12, calibfilename, cfile, bfile, tfile,
                   newtime, newt, stime, etime, calib, clkregs, firstsec, try,
                   env>>

\* after the loop: give up, or decode, correct and (update) set the system
\* time
ru_after ==
    /\ pc = "ru_after"
    /\ IF GaveUp(toytime)
       THEN /\ Exit("EX_IOERR", ev, "NotRunning")
            /\ UNCHANGED <<toytime, sysclock>>
       ELSE LET t == decodeTOY(clkregs)
                e == [ev EXCEPT !.decoded = Append(@, clkregs)]
            IN  IF t = -1
                THEN Exit("EX_OSERR", e, "NoUTC") /\ UNCHANGED <<toytime, sysclock>>
                ELSE /\ toytime' = Corrected(t, calib)
                     /\ IF fn = F_UPDATE /\ ~testmode
                        THEN /\ sysclock' = Ts(Corrected(t, calib), 0)
                             /\ ev' = [e EXCEPT !.setTimes = @ + 1]
                        ELSE UNCHANGED sysclock /\ ev' = e
                     /\ pc' = "exit"
                     /\ exitCode' = "EX_OK"
    /\ UNCHANGED <<pins, chip, fn, testmode, todo, reg, i, n, data, dp, rbuf,
                   obs, force, calrundays, hour12, calibfilename, cfile, bfile, tfile,
                   newtime, newt, stime, etime, calib, clkregs, firstsec, try,
                   env>>

(***************************************************************************)
(* Spec                                                                    *)
(***************************************************************************)

\* seconds ticks of the chip, steps of the host clock and contact losses in
\* one run
MaxTicks == 2
MaxSteps == 1
MaxFaults == 1

\* a calibration file that does not parse after its second line
BadFile == CalibFile(FALSE, Ts(Now0 - 5, 0), Rate(1, 4))

\* --adjfile / --noadjfile and the file found at the start: none, one that
\* does not parse, and valid ones last set half a second less than a day, a
\* day, and three days ago
Stores ==
    {<<"adjtime", f>> :
        f \in {NoFile, BadFile,
               CalibFile(TRUE, Ts(Now0 - SecsPerDay, 1), Rate(1, 50000)),
               CalibFile(TRUE, Ts(Now0 - SecsPerDay, 0), Rate(0, 1)),
               CalibFile(TRUE, Ts(Now0 - 3 * SecsPerDay, 1), Rate(0, 1)),
               CalibFile(TRUE, Ts(Now0 - 3 * SecsPerDay, 1), Rate(-1, 50000))}}
    \cup {<<"NULL", CalibFile(TRUE, Ts(Now0 - SecsPerDay, 1), Rate(-1, 50000))>>}

\* the command line
Options ==
    /\ fn \in ClockFunctions
    /\ testmode \in (IF fn = F_READ THEN {FALSE} ELSE BOOLEAN)
    /\ force \in (IF fn \in {F_SET, F_SET2SYS} THEN BOOLEAN ELSE {FALSE})
    /\ \* a day, and a number of days whose seconds do not fit 32 bits
       calrundays \in (IF fn \in {F_SET, F_SET2SYS} THEN {1, 49711}
                       ELSE {MIN_CAL_RUNDAYS})
    /\ hour12 \in (IF fn = F_SET2SYS THEN BOOLEAN ELSE {FALSE})

Init ==
    /\ ce = 0 /\ ck = 0 /\ io = 0 /\ ioDir = "out"
    /\ sysclock = Ts(Now0, 0)
    /\ bfile = NoFile /\ tfile = NoFile
    /\ \/ /\ Options
          /\ \E st \in Stores : calibfilename = st[1] /\ cfile = st[2]
          /\ \* the chip found at the start: running, halted, none
             chip \in {ChipInit(TRUE, ChipRegsRunning),
                       ChipInit(TRUE, ChipRegsHalted),
                       ChipInit(FALSE, ChipRegsRunning)}
          /\ env \in {Env("run", MaxTicks, MaxSteps, MaxFaults, ntp) :
                         ntp \in (IF fn = F_SET2SYS THEN BOOLEAN ELSE {TRUE})}
       \/ \* the oscillator has stopped, or starts late: the seconds read
          \* the same until it does
          /\ fn \in {F_UPDATE, F_SET2SYS}
          /\ testmode = FALSE /\ force = FALSE /\ hour12 = FALSE
          /\ calrundays = 1
          /\ calibfilename = "adjtime"
          /\ cfile = CalibFile(TRUE, Ts(Now0 - 3 * SecsPerDay, 1), Rate(0, 1))
          /\ chip = ChipInit(TRUE, ChipRegsRunning)
          /\ env \in {Env("stuck", 0, 0, 0, TRUE)}
                    \cup (IF fn = F_UPDATE THEN {Env("late", 1, 0, 0, TRUE)}
                          ELSE {})
    /\ pc = IF fn \in {F_SET, F_SET2SYS} THEN "parseSET" ELSE "initIO"
    /\ todo = <<>> /\ reg = 0 /\ i = 0 /\ n = 0 /\ data = 0 /\ dp = <<>>
    /\ rbuf = <<>> /\ exitCode = "none" /\ obs = NoObs
    /\ newtime = NoTm /\ newt = 0 /\ stime = Ts(0, 0) /\ etime = Ts(0, 0)
    /\ calib = NoCalib /\ clkregs = <<>> /\ firstsec = 0 /\ try = 0
    /\ toytime = 0
    /\ ev = NoEv

Next ==
    \/ parseSET \/ initIO \/ mainClock
    \/ setTOY \/ st_fit \/ st_cmp \/ st_again \/ st_fitted \/ st_commit
    \/ st_unlock \/ st_write \/ writeCalib
    \/ readUpdate \/ ru_cmp \/ ru_again \/ ru_after
    \/ ChipTick \/ ChipLost \/ HostStep

Spec == Init /\ [][Next]_vars

(***************************************************************************)
(* Properties of the clock commands (Spec)                                 *)
(***************************************************************************)

\* C6: with a chip that is present, not halted and whose seconds never
\* change, readUpdate ends with "TOY does not seem to be running" after
\* exactly TOY_MAX_READS comparisons of the seconds.
C6_NotRunningAfterMaxReads ==
    (env.osc = "stuck" /\ pc = "exit")
        => (ev.msg = "NotRunning" /\ ev.cmps = TOY_MAX_READS)

\* C7: the stabilizing loop goes on only while the last two burst reads
\* showed the same seconds: a change between any two successive reads ends
\* it on the later one.
C7_EveryPairCompared ==
    pc \in {"st_cmp", "st_again", "ru_cmp", "ru_again"}
        => (ev.prevsec = -1 \/ ev.prevsec = ev.lastsec)

\* no write to the chip, to the calibration file or its backup, or to the
\* system clock in this step
C8_NoEffect ==
    /\ ev'.writes = ev.writes
    /\ ev'.calibWrites = ev.calibWrites
    /\ ev'.setTimes = ev.setTimes
    /\ cfile' = cfile
    /\ bfile' = bfile

\* C8 as claimed: once the chip was found halted or the loop ran out, in
\* readUpdate or in the drift fit of a set, nothing more is written.
C8_FailureAbortsEverywhere ==
    [][(ev.ruFail # "none" \/ ev.fitFail # "none") => C8_NoEffect]_vars

\* a set whose drift fit was given up is through with setTOY: it has
\* unlocked and written the chip, and the record it stored keeps the drift
\* rate of the one it replaced
C8_SetWentOn ==
    (ev.fitFail # "none" /\ pc = "readUpdate")
        => /\ ev.writes = 2
           /\ calibfilename # "NULL"
           /\ ev.ioFail = "none"
                => /\ ev.calibWrites = 1
                   /\ cfile = CalibFile(TRUE, etime, bfile.driftrate)

\* C8 (amended): a halted chip or a loop that ran out aborts readUpdate with
\* nothing written afterwards; in the drift fit of a set they only skip the
\* fit, and the set goes on to write the chip and the calibration record.
C8_ReadAbortsSetGoesOn ==
    /\ [][ev.ruFail # "none" => (C8_NoEffect /\ pc' = "exit")]_vars
    /\ []C8_SetWentOn

C8_Witness ==
    /\ pc = "exit"
    /\ ev.fitFail = "exhausted"
    /\ ev.ruFail = "exhausted"
    /\ ev.writes = 2
    /\ ev.calibWrites = 1

\* C9: every register set given to decodeTOY has the must-be-zero bits of
\* the month clear.
C9_DecodedSamplesPassedSentinel ==
    \A k \in 1..Len(ev.decoded) :
        BitAnd(RegOf(ev.decoded[k], TOY_MON), TOY_M_MON_MBZ) = 0

\* the calibration file in use holds a valid record that is less than
\* calrundays days old
C10_Young ==
    /\ calibfilename # "NULL"
    /\ cfile.exists
    /\ cfile.ok
    /\ TsDiff(sysclock, cfile.lastset) \div (SecsPerDay * Res) < calrundays

\* C10: setTOY entered without --force on a young valid calibration exits
\* EX_UNAVAILABLE, with no transfer made and both files as they were.
C10_YoungCalibrationRejected ==
    [][(pc = "setTOY" /\ pc' # "setTOY" /\ ~force /\ C10_Young)
          => /\ pc' = "exit"
             /\ exitCode' = "EX_UNAVAILABLE"
             /\ ev'.reads = 0
             /\ ev'.writes = 0
             /\ cfile' = cfile
             /\ bfile' = bfile]_vars

\* a set or systohc has come through setTOY
SetDone == pc = "readUpdate" /\ fn \in {F_SET, F_SET2SYS}

\* the calibration file held a valid record when the set began (the backup
\* is the copy writeCalib took of it)
PriorValid == calibfilename # "NULL" /\ bfile.exists /\ bfile.ok

\* a span of seconds and 1/Res parts is at least, is more than, so many days
AtLeastDays(span, days) == span.sec \div SecsPerDay >= days
MoreThanDays(span, days) ==
    \/ span.sec \div SecsPerDay > days
    \/ /\ span.sec \div SecsPerDay = days
       /\ (span.sec % SecsPerDay > 0 \/ span.frac > 0)

\* the host times from a to b
Stamps(a, b) ==
    {Ts(s, f) : s \in a.sec..b.sec, f \in 0..(Res - 1)}
        \cap {x \in [sec : a.sec..b.sec, frac : 0..(Res - 1)] :
                 TsDiff(x, a) >= 0 /\ TsDiff(b, x) >= 0}

\* the record in the file carries the rate fitted from the sample decoded,
\* against a host time taken after the last burst read of the fit
FittedRate ==
    /\ ev.reads > 0
    /\ Len(ev.decoded) = 1
    /\ \E T \in Stamps(ev.readAt, cfile.lastset) :
          cfile.driftrate = Rate(TsDiff(Ts(decodeTOY(ev.decoded[1]), 0), T),
                                 TsDiff(T, bfile.lastset))

C11_FitBegins ==
    (/\ pc = "setTOY" /\ pc' # "setTOY"
     /\ readCalib.valid # 0
     /\ AtLeastDays(TsSpan(Ts(sysclock.sec, 0), readCalib.lastset),
                    calrundays)
     /\ MoreThanDays(TsSpan(Ts(timegm(newtime), 0), readCalib.lastset),
                     calrundays))
        => pc' = "st_fit"

\* a fit whose stabilized read saw the seconds change stores the fitted rate
C11_FitEnds ==
    (SetDone /\ ev.reads > 0 /\ ev.fitFail = "none" /\ ev.ioFail = "none")
        => FittedRate

C12_BaselineAtLeastCalrundays ==
    (SetDone /\ PriorValid /\ ev.ioFail = "none" /\ Len(ev.decoded) = 1)
        => /\ cfile.driftrate.den > 0
           /\ AtLeastDays(Ts(cfile.driftrate.den \div Res,
                          cfile.driftrate.den % Res), calrundays)

\* C13: a set that completes without a refit, having found a valid record,
\* stores a valid record with that record's drift rate and a last set time
\* taken in this run.
C13_RateCarriedWithoutRefit ==
    (SetDone /\ PriorValid /\ ev.ioFail = "none" /\ ev.decoded = <<>>)
        => /\ ev.calibWrites = 1
           /\ cfile.exists /\ cfile.ok
           /\ cfile.driftrate = bfile.driftrate
           /\ cfile.lastset = etime
           /\ TsDiff(cfile.lastset, stime) >= 0

\* a set forced on a young calibration has kept its rate
C13_Witness ==
    /\ SetDone /\ PriorValid /\ ev.ioFail = "none" /\ ev.decoded = <<>>
    /\ force
    /\ ~AtLeastDays(TsSpan(stime, bfile.lastset), calrundays)
    /\ bfile.driftrate.num # 0
    /\ cfile.driftrate = bfile.driftrate

\* C14 as claimed: the host time stored as the last set is taken when the
\* clock burst write is over, not before.
C14_StampedAfterWrite ==
    pc = "writeCalib" => TsDiff(calib.lastset, ev.wroteAt) >= 0

\* the last set time changes in setTOY only while nothing has been written
\* to the chip
C14_StampStep ==
    (pc # "readUpdate" /\ calib'.lastset # calib.lastset) => ev'.writes = 0

\* C14 (amended): the host time that becomes the new last set is taken
\* before unlockTOY and the clock burst write, and is not later than the
\* write.
C14_StampedBeforeWrite ==
    /\ [][C14_StampStep]_vars
    /\ [](pc = "writeCalib"
            => /\ calib.lastset = etime
               /\ TsDiff(ev.wroteAt, calib.lastset) >= 0)

\* the host clock moved on between the stamp and the write
C14_Witness ==
    pc = "writeCalib" /\ ev.writes = 2 /\ TsDiff(ev.wroteAt, calib.lastset) > 0

\* C19: a set writes the chip only times whose UTC year is 2000..2099; any
\* other is refused.
C19_YearInRangeWhenWritten ==
    (fn \in {F_SET, F_SET2SYS} /\ ev.writes = 2)
        => (newtime.year + 1900 >= 2000 /\ newtime.year + 1900 < 2100)

\* the registers setTOY has built have WP set and CH clear
C20_Built ==
    pc \in {"st_unlock", "st_write"}
        => /\ Len(clkregs) = TOY_CLK_REGS
           /\ BitAnd(RegOf(clkregs, TOY_CTL), TOY_M_WP) # 0
           /\ BitAnd(RegOf(clkregs, TOY_SEC), TOY_M_HALT) = 0

\* the clock burst is the second write of the set, after unlockTOY's, and
\* finds the chip's control register as unlockTOY left it
C20_WriteStep ==
    (pc = "st_write" /\ pc' # "st_write")
        => /\ ev.writes = 1 /\ ev'.writes = 2
           /\ chip.present
                => RegOf(chip.regs, TOY_CTL) = (IF testmode THEN TOY_M_WP ELSE 0)

\* C20: every register set setTOY builds has WP set in the control byte and
\* CH clear in the seconds, and the burst that writes it follows an
\* unlockTOY of the same run.
C20_WPSetHaltClearAfterUnlock ==
    /\ []C20_Built
    /\ [][C20_WriteStep]_vars

\* the chip holds what was built, write-protected and running
C20_Witness ==
    /\ pc = "writeCalib" /\ ev.writes = 2 /\ chip.present /\ ~testmode
    /\ chip.regs = clkregs
    /\ RegOf(chip.regs, TOY_CTL) = TOY_M_WP
    /\ RegOf(chip.regs, TOY_SEC) < TOY_M_HALT

\* C26: a set that found no calibration file, or one that does not parse,
\* and has written the file, has stored a drift rate of 0.
C26_NoPriorMeansZeroRate ==
    (SetDone /\ ev.calibWrites = 1 /\ ~(bfile.exists /\ bfile.ok))
        => cfile.driftrate.num = 0

\* C29: with --noadjfile no step changes the calibration file, its backup
\* or its temporary file, no record is read from it (the drift rate of
\* struct calib stays 0), no set is refused as too young, and the time a
\* command ends with is the chip's time as decoded.
C29_FilesUntouched ==
    calibfilename = "NULL"
        => (cfile' = cfile /\ bfile' = bfile /\ tfile' = tfile)

C29_NothingRead ==
    calibfilename = "NULL"
        => /\ calib.driftrate = Rate(0, 1)
           /\ pc \in {"st_fit", "st_cmp", "st_again", "st_fitted", "st_commit",
                     "ru_cmp", "ru_again", "ru_after"} => calib = NoCalib
           /\ ev.calibWrites = 0 /\ ev.ioFail = "none"
           /\ ev.msg # "TooYoung"
           /\ (pc = "exit" /\ exitCode = "EX_OK")
                 => toytime = decodeTOY(clkregs)

C29_NoAdjFile == [][C29_FilesUntouched]_vars /\ []C29_NothingRead

\* a set without --force that ends well although the file that was not
\* looked at is less than calrundays old
C29_Witness ==
    /\ calibfilename = "NULL" /\ fn = F_SET /\ ~force /\ calrundays = 1
    /\ cfile.exists /\ cfile.ok
    /\ TsSpan(stime, cfile.lastset).sec < SecsPerDay
    /\ pc = "exit" /\ exitCode = "EX_OK" /\ ev.writes = 2

\* C37: the system time is set (settimeofday) only by update-time outside
\* test mode, once, in the step after the stabilizing loop, when the first
\* sample has passed the no-device and the halt test and the loop has not
\* reached its bound; read, set and systohc never set it.
C37_SetStep ==
    ev'.setTimes # ev.setTimes =>
        /\ fn = F_UPDATE /\ ~testmode /\ pc = "ru_after" /\ pc' = "exit"
        /\ ev.setTimes = 0 /\ ev'.setTimes = 1
        /\ ev.msg = "none" /\ ev.ruFail = "none"
        /\ ev.reads >= 2 /\ ev.cmps >= 1 /\ toytime < TOY_MAX_READS
        /\ ~NoDevice(clkregs) /\ ~Halted(clkregs)
        /\ sysclock' = Ts(toytime', 0)

C37_Unset ==
    (fn # F_UPDATE \/ testmode \/ ev.msg \in {"NoTOY", "Halted", "NotRunning"})
        => ev.setTimes = 0

C37_SystemTimeOnlyFromGoodUpdate == [][C37_SetStep]_vars /\ []C37_Unset

\* update-time has set the system time to the corrected chip time
C37_Witness ==
    /\ fn = F_UPDATE /\ ~testmode /\ pc = "exit" /\ exitCode = "EX_OK"
    /\ ev.setTimes = 1 /\ calib.valid = 1 /\ sysclock = Ts(toytime, 0)
    /\ sysclock # Ts(Now0, 0)

\* C39: in test mode a set or systohc writes WP where it would unlock, the
\* clock burst that follows leaves the chip's registers as they were, and
\* writeCalib still stores a new valid record whose last set is the host
\* time read in this run, the file that was there going to the backup.
C39_TestSetStep ==
    (testmode /\ fn \in {F_SET, F_SET2SYS}) =>
        /\ (pc = "st_unlock" /\ pc' = "st_write" /\ chip.present) =>
              /\ ChipWP(chip')
              /\ RegOf(chip'.regs, TOY_SEC) = RegOf(chip.regs, TOY_SEC)
        /\ (pc = "st_write" /\ pc' = "writeCalib") =>
              (ChipWP(chip) /\ chip'.regs = chip.regs /\ calib'.valid = 1)
        /\ (pc = "writeCalib" /\ pc' = "readUpdate" /\ calibfilename # "NULL"
            /\ ev'.ioFail = "none") =>
              /\ ev'.calibWrites = ev.calibWrites + 1
              /\ cfile'.exists /\ cfile'.ok /\ cfile'.lastset = etime
              /\ TsDiff(etime, stime) >= 0 /\ TsDiff(sysclock, etime) >= 0
              /\ cfile.exists => bfile' = cfile

C39_TestModeSetStoresRecord == [][C39_TestSetStep]_vars

\* a set in test mode has replaced a valid file last set 3 days ago; the
\* chip shows the time it showed before
C39_Witness ==
    /\ testmode /\ fn = F_SET /\ SetDone /\ ev.calibWrites = 1
    /\ ev.writes = 2 /\ chip.regs = ChipRegsRunning
    /\ cfile.lastset = etime /\ cfile.ok
    /\ bfile.exists /\ bfile.lastset = Ts(Now0 - 3 * SecsPerDay, 1)

\* C35: readUpdate reports "TOY does not seem to be running" only when no
\* pass of its loop saw the seconds change: a pass that sees the change
\* leaves the loop and the sample is decoded.
C35_SeenChangeIsDecoded ==
    (pc = "exit" /\ ev.msg = "NotRunning") => ev.ruFail = "exhausted"

(***************************************************************************)
(* SpecCalc: the conversions on their own.  A register sample is decoded,  *)
(* the drift correction applied, and the time encoded again.               *)
(***************************************************************************)

\* numbers beyond 32 bits, as limbs to the base 10^4, lowest first
Base == 10000

RECURSIVE Carry(_, _)
Carry(limbs, c) ==
    IF limbs = <<>>
    THEN (IF c = 0 THEN <<>> ELSE <<c % Base>> \o Carry(<<>>, c \div Base))
    ELSE <<(Head(limbs) + c) % Base>>
             \o Carry(Tail(limbs), (Head(limbs) + c) \div Base)

RECURSIVE Column(_, _, _, _)
Column(x, y, k, j) ==
    IF j > Len(x) THEN 0
    ELSE (IF k + 1 - j \in 1..Len(y) THEN x[j] * y[k + 1 - j] ELSE 0)
         + Column(x, y, k, j + 1)

\* x * y
Times(x, y) ==
    IF x = <<>> \/ y = <<>> THEN <<>>
    ELSE Carry([k \in 1..(Len(x) + Len(y) - 1) |-> Column(x, y, k, 1)], 0)

\* x + y
Plus(x, y) ==
    Carry([k \in 1..(IF Len(x) > Len(y) THEN Len(x) ELSE Len(y)) |->
              (IF k <= Len(x) THEN x[k] ELSE 0)
              + (IF k <= Len(y) THEN y[k] ELSE 0)], 0)

\* x div Base^k, a number that fits 31 bits
RECURSIVE Value(_)
Value(limbs) ==
    IF limbs = <<>> THEN 0 ELSE Head(limbs) + Base * Value(Tail(limbs))

\* a calibration as the file's decimals give it: last set in seconds and
\* thousandths, drift rate in units of 10^-12
DecCalib(sec, milli, ppt) ==
    [valid |-> 1, lastset |-> [sec |-> sec, milli |-> milli],
     driftrate |-> [ppt |-> ppt]]

IsDecimal(c) == "ppt" \in DOMAIN c.driftrate

\* (the same with the rate a tenth of what it is)
SlowCorrectedTenth(t, c) ==
    LET secs == t - c.lastset.sec - (IF c.lastset.milli > 0 THEN 1 ELSE 0)
        milli == IF c.lastset.milli > 0 THEN 1000 - c.lastset.milli ELSE 0
        elapsed == Plus(Times(Carry(<<secs>>, 0), Carry(<<1000>>, 0)),
                        Carry(<<milli>>, 0))
        stretch == Times(elapsed, Carry(<<-c.driftrate.ppt>>, 0))
        sum == Plus(stretch, <<0, 0, 0, 5000>>)
    IN  t + Value(SubSeq(sum, 5, Len(sum)))

\* correction < 0, the last set not after t:
\* calib.lastset + (elapsed * (1.0L + fabsl( correction ))) + 0.5L
\* = t + the whole part of elapsed * |correction| + 0.5, the elapsed time in
\* thousandths times 10 |ppt| being in units of 10^-16
SlowCorrected(t, c) ==
    LET secs == t - c.lastset.sec - (IF c.lastset.milli > 0 THEN 1 ELSE 0)
        milli == IF c.lastset.milli > 0 THEN 1000 - c.lastset.milli ELSE 0
        elapsed == Plus(Times(Carry(<<secs>>, 0), Carry(<<1000>>, 0)),
                        Carry(<<milli>>, 0))
        stretch == Times(elapsed, Carry(<<10 * (-c.driftrate.ppt)>>, 0))
        sum == Plus(stretch, <<0, 0, 0, 5000>>)
    IN  t + Value(SubSeq(sum, 5, Len(sum)))

\* the correction readUpdate applies
Correct(t, c) ==
    IF IsDecimal(c) THEN SlowCorrected(t, c) ELSE Corrected(t, c)

\* register samples: 2023-01-15 10:00:45 at every hour of the day in both
\* modes (24-hour 0..23, 12-hour 1..12 AM and PM), the end of a leap day,
\* and a year past the 32-bit time_t
CalcRegs ==
    {[ChipRegsRunning EXCEPT ![1 + OFFSET(TOY_HR)] = hr] :
        hr \in {BCD(h) : h \in 0..23}
                \cup {TOY_M_12HR + pm + BCD(h) :
                         pm \in {0, TOY_M_PM}, h \in 1..12}}
        \cup {<<BCD(59), BCD(59), BCD(23), BCD(29), BCD(2), BCD(5), BCD(24),
                TOY_M_WP>>,
              <<BCD(0), BCD(0), BCD(0), BCD(1), BCD(1), BCD(5), BCD(99),
                TOY_M_WP>>}

\* the sample calibration of the README
ReadmeCalib == DecCalib(1600806806, 87, -28974891)

\* calibrations: none, invalid, valid ones of either sign last set three
\* days before and ten seconds after the README's chip time
CalcCalibs ==
    {NoCalib, [NoCalib EXCEPT !.driftrate = Rate(-1, 50000)], ReadmeCalib,
     DecCalib(Now0 - 100000, 500, -5000000)}
        \cup {[valid |-> 1, lastset |-> ls, driftrate |-> r] :
                 ls \in {Ts(Now0 - 3 * SecsPerDay, 1), Ts(Now0 + 10, 0)},
                 r \in {Rate(0, 1), Rate(-1, 50000), Rate(1, 50000),
                        Rate(-1, 3), Rate(2, 7), Rate(1, -7)}}

InitCalc ==
    /\ ce = 0 /\ ck = 0 /\ io = 0 /\ ioDir = "out"
    /\ chip = ChipInit(FALSE, ChipRegsRunning)
    /\ fn = F_READ /\ testmode = FALSE /\ todo = <<>>
    /\ reg = 0 /\ i = 0 /\ data = 0 /\ dp = <<>>
    /\ exitCode = "none" /\ obs = NoObs
    /\ force = FALSE /\ calrundays = MIN_CAL_RUNDAYS
    /\ calibfilename = "NULL"
    /\ sysclock = Ts(0, 0) /\ cfile = NoFile /\ bfile = NoFile /\ tfile = NoFile
    /\ newtime = NoTm /\ newt = 0 /\ stime = Ts(0, 0) /\ etime = Ts(0, 0)
    /\ firstsec = 0 /\ try = 0 /\ toytime = 0
    /\ env = Env("run", 0, 0, 0, FALSE) /\ ev = NoEv
    /\ \/ /\ pc = "calc"
          /\ rbuf \in CalcRegs /\ clkregs = rbuf
          /\ calib \in CalcCalibs
          /\ hour12 \in BOOLEAN
          /\ n = 0
       \/ \* a number of two decimal digits
          /\ pc = "bcd"
          /\ n \in 0 .. 99
          /\ rbuf = <<>> /\ clkregs = <<>>
          /\ calib = NoCalib
          /\ hour12 = FALSE

\* toytime = decodeTOY( clkregs )
calcDecode ==
    /\ pc = "calc"
    /\ IF decodeTOY(clkregs) = -1
       THEN Exit("EX_OSERR", ev, "NoUTC") /\ UNCHANGED toytime
       ELSE /\ toytime' = decodeTOY(clkregs)
            /\ pc' = "decoded"
            /\ UNCHANGED <<exitCode, ev>>
    /\ UNCHANGED <<pins, chip, fn, testmode, todo, reg, i, n, data, dp, rbuf,
                   obs, force, calrundays, hour12, calibfilename, sysclock,
                   cfile, bfile, tfile, newtime, newt, stime, etime, calib, clkregs,
                   firstsec, try, env>>

\* the drift correction
calcCorrect ==
    /\ pc = "decoded"
    /\ toytime' = Correct(toytime, calib)
    /\ pc' = "corrected"
    /\ UNCHANGED <<pins, chip, fn, testmode, todo, reg, i, n, data, dp, rbuf,
                   exitCode, obs, force, calrundays, hour12, calibfilename,
                   sysclock, cfile, bfile, tfile, newtime, newt, stime, etime, calib,
                   clkregs, firstsec, try, env, ev>>

\* the time the sample shows, made into registers as setTOY makes them
calcEncode ==
    /\ pc = "corrected"
    /\ newt' = decodeTOY(rbuf)
    /\ newtime' = gmtime_r(decodeTOY(rbuf))
    /\ clkregs' = encodeTOY(gmtime_r(decodeTOY(rbuf)), hour12)
    /\ pc' = "encoded"
    /\ UNCHANGED <<pins, chip, fn, testmode, todo, reg, i, n, data, dp, rbuf,
                   exitCode, obs, force, calrundays, hour12, calibfilename,
                   sysclock, cfile, bfile, tfile, stime, etime, calib, firstsec, try,
                   toytime, env, ev>>

\* data = BCD( n ); i = BIN( data )
calcBCD ==
    /\ pc = "bcd"
    /\ data' = BCD(n)
    /\ i' = BIN(BCD(n))
    /\ pc' = "bin"
    /\ UNCHANGED <<pins, chip, fn, testmode, todo, reg, n, dp, rbuf,
                   exitCode, obs, force, calrundays, hour12, calibfilename,
                   sysclock, cfile, bfile, tfile, newtime, newt, stime, etime, calib,
                   clkregs, firstsec, try, toytime, env, ev>>

NextCalc == calcDecode \/ calcCorrect \/ calcEncode \/ calcBCD

SpecCalc == InitCalc /\ [][NextCalc]_vars

(***************************************************************************)
(* Properties of the conversions (SpecCalc)                                *)
(***************************************************************************)

\* the time the sample decodes to
RawTime == decodeTOY(rbuf)

Abs(x) == IF x < 0 THEN -x ELSE x

\* r is a whole second nearest to raw + e * a / d, e in steps of 1/Res second
Nearest(r, raw, e, a, d) ==
    Abs(2 * d * (r - raw) * Res - 2 * e * a) <= Res * d

\* C15: with a valid calibration and a rate that is not zero the time
\* reported is lastset + elapsed * (1 + |rate|) for a negative rate and
\* lastset + elapsed / (1 + rate) for a positive one, to the nearest second;
\* otherwise it is the decoded time itself.
C15_CorrectionFormula ==
    (pc = "corrected" /\ ~IsDecimal(calib))
        => LET num == calib.driftrate.num
               den == calib.driftrate.den
               e == TsDiff(Ts(RawTime, 0), calib.lastset)
           IN  IF calib.valid = 0 \/ num = 0 THEN toytime = RawTime
               ELSE IF (num < 0) # (den < 0)
               THEN Nearest(toytime, RawTime, e, Abs(num), Abs(den))
               ELSE Nearest(toytime, RawTime, -e, Abs(num),
                            Abs(den) + Abs(num))

\* a correction of more than a second either way has been made
C15_Witness ==
    /\ pc = "corrected" /\ ~IsDecimal(calib) /\ calib.valid = 1
    /\ calib.driftrate = Rate(2, 7)
    /\ toytime < RawTime - 1

\* the README's calibration and sample
ReadmeCase == calib = ReadmeCalib /\ rbuf = ChipRegsRunning

\* C16 as claimed: a negative rate over a positive elapsed time gives a time
\* earlier than the chip's, by elapsed * |rate|, 2114 s in the README's case.
C16_NegativeRateEarlier ==
    (pc = "corrected" /\ IsDecimal(calib))
        => /\ toytime <= RawTime
           /\ ReadmeCase => RawTime - toytime = 2114

\* C16 (amended): a negative rate over a positive elapsed time gives a time
\* later than the chip's, by elapsed * |rate| to the nearest second, 2114 s
\* in the README's case.
C16_NegativeRateLater ==
    (pc = "corrected" /\ calib.valid = 1)
        => /\ IsDecimal(calib)
                => /\ toytime >= RawTime
                   /\ ReadmeCase => toytime - RawTime = 2114
           /\ (/\ ~IsDecimal(calib)
               /\ (calib.driftrate.num < 0) # (calib.driftrate.den < 0)
               /\ TsDiff(Ts(RawTime, 0), calib.lastset) > 0)
                => /\ toytime >= RawTime
                   /\ Nearest(toytime - RawTime, 0,
                              TsDiff(Ts(RawTime, 0), calib.lastset),
                              Abs(calib.driftrate.num),
                              Abs(calib.driftrate.den))

C16_Witness ==
    pc = "corrected" /\ ReadmeCase /\ toytime = 1673778959

\* the two digits of a BCD byte as a number
TwoDigits(b) == 10 * (b \div 16) + (b % 16)

\* C17: the time decoded has the BCD value of each field of the sample, the
\* year 2000 + BCD; in 12-hour mode 12 AM is hour 0, 12 PM hour 12, h PM
\* hour h + 12; the README's sample decodes to 2023-01-15 10:00:45 UTC.
C17_DecodeFields ==
    pc = "decoded"
        => LET tm == gmtime_r(toytime)
               hr == RegOf(rbuf, TOY_HR)
               h == TwoDigits(hr % 32)
           IN  /\ tm.sec = TwoDigits(RegOf(rbuf, TOY_SEC) % 128)
               /\ tm.min = TwoDigits(RegOf(rbuf, TOY_MIN) % 128)
               /\ tm.mday = TwoDigits(RegOf(rbuf, TOY_DAY))
               /\ tm.mon + 1 = TwoDigits(RegOf(rbuf, TOY_MON))
               /\ tm.year + 1900 = 2000 + TwoDigits(RegOf(rbuf, TOY_YR))
               /\ tm.hour = IF hr < 128 THEN TwoDigits(hr % 64)
                            ELSE IF hr % 64 >= 32
                                 THEN (IF h = 12 THEN 12 ELSE h + 12)
                                 ELSE (IF h = 12 THEN 0 ELSE h)
               /\ rbuf = <<69, 0, 16, 21, 1, 1, 35, 128>>
                    => /\ toytime = 1673776845
                       /\ tm = [year |-> 123, mon |-> 0, mday |-> 15,
                                hour |-> 10, min |-> 0, sec |-> 45, wday |-> 0]

\* 11 PM has been decoded
C17_Witness ==
    /\ pc = "decoded"
    /\ RegOf(rbuf, TOY_HR) = 128 + 32 + 17
    /\ gmtime_r(toytime).hour = 23

\* C18: the hour register written for an hour of the day decodes to that
\* hour in either mode, and a 12-hour register decoded and encoded again in
\* 12-hour mode has the same 12-hour flag, PM flag and hour digits.
C18_HourRoundTrip ==
    pc = "encoded"
        => /\ decodeHour(RegOf(clkregs, TOY_HR)) = newtime.hour
           /\ newtime.hour = decodeHour(RegOf(rbuf, TOY_HR))
           /\ (hour12 /\ RegOf(rbuf, TOY_HR) >= 128)
                => RegOf(clkregs, TOY_HR) = RegOf(rbuf, TOY_HR)
           /\ (hour12 <=> RegOf(clkregs, TOY_HR) >= 128)

\* 12 PM has gone round
C18_Witness ==
    /\ pc = "encoded" /\ hour12
    /\ RegOf(rbuf, TOY_HR) = 128 + 32 + 18
    /\ RegOf(clkregs, TOY_HR) = 128 + 32 + 18
    /\ newtime.hour = 12

\* C21: a number of two decimal digits made into BCD is one byte with both
\* nibbles in 0..9, and BIN gives the number back.
C21_BcdRoundTrip ==
    pc = "bin" => /\ i = n
                  /\ data \in 0 .. 255
                  /\ data \div 16 \in 0 .. 9
                  /\ data % 16 \in 0 .. 9

C21_Witness == pc = "bin" /\ n = 59 /\ data = 89 /\ i = 59

(***************************************************************************)
(* SpecFile: writeCalib step by step, then readCalib, on files that hold   *)
(* text.  Here cfile, bfile and tfile are [exists, text], text a sequence  *)
(* of characters, and the two numbers of a calibration are decimal         *)
(* numerals [neg, id, fd]: sign, integer digits, fraction digits.  A crash *)
(* ends the process between two steps; the files stay as the steps made    *)
(* so far have left them.                                                  *)
(***************************************************************************)

Digits == <<"0", "1", "2", "3", "4", "5", "6", "7", "8", "9">>

\* printf's "%.<p>Lf": x rounded to p fraction digits
Lf(x, p) ==
    LET RECURSIVE Inc(_)
        Inc(ds) ==
            IF ds = <<>> THEN <<1>>
            ELSE IF ds[Len(ds)] = 9
                 THEN Inc(SubSeq(ds, 1, Len(ds) - 1)) \o <<0>>
                 ELSE [ds EXCEPT ![Len(ds)] = @ + 1]
        kept == [k \in 1..p |-> IF k <= Len(x.fd) THEN x.fd[k] ELSE 0]
        all == x.id \o kept
        r == IF Len(x.fd) > p /\ x.fd[p + 1] >= 5 THEN Inc(all) ELSE all
        chars == [k \in 1..Len(r) |-> Digits[r[k] + 1]]
    IN  (IF x.neg THEN <<"-">> ELSE <<>>)
            \o SubSeq(chars, 1, Len(r) - p) \o <<".">>
            \o SubSeq(chars, Len(r) - p + 1, Len(r))

\* (three lines without the notes in parentheses)
CalibTextBare(c, ts) ==
    Lf(c.lastset, 9) \o <<"\n">> \o Lf(c.driftrate, 12) \o <<"\n">>
        \o <<"U", "T", "C", "\n">>

\* the three lines writeCalib prints for record c at time ts:
\* "%.9Lf (%s UTC)\n%.12Lf (%.3Lf PPM)\n%s\n"
CalibText(c, ts) ==
    LET tm == gmtime_r(ts.sec)
        Two(v) == <<Digits[(v \div 10) + 1], Digits[(v % 10) + 1]>>
        wdays == <<<<"S", "u", "n">>, <<"M", "o", "n">>, <<"T", "u", "e">>,
                   <<"W", "e", "d">>, <<"T", "h", "u">>, <<"F", "r", "i">>,
                   <<"S", "a", "t">>>>
        months == <<<<"J", "a", "n">>, <<"F", "e", "b">>, <<"M", "a", "r">>,
                    <<"A", "p", "r">>, <<"M", "a", "y">>, <<"J", "u", "n">>,
                    <<"J", "u", "l">>, <<"A", "u", "g">>, <<"S", "e", "p">>,
                    <<"O", "c", "t">>, <<"N", "o", "v">>, <<"D", "e", "c">>>>
        msec == (ts.frac * 1000) \div Res
        \* formatTime( &tm, 1, ts->tv_nsec ): "%a %b %d %Y %H:%M:%S" ".%03.0f"
        formatTime ==
            wdays[tm.wday + 1] \o <<" ">> \o months[tm.mon + 1] \o <<" ">>
                \o Two(tm.mday) \o <<" ">>
                \o Two((tm.year + 1900) \div 100) \o Two(tm.year % 100)
                \o <<" ">> \o Two(tm.hour) \o <<":">> \o Two(tm.min)
                \o <<":">> \o Two(tm.sec) \o <<".">>
                \o <<Digits[msec \div 100 + 1]>> \o Two(msec % 100)
        \* calib->driftrate * 1e6L
        r == c.driftrate
        moved == r.id \o [k \in 1..6 |-> IF k <= Len(r.fd) THEN r.fd[k] ELSE 0]
        lead == IF \A k \in 1..Len(moved) : moved[k] = 0 THEN Len(moved)
                ELSE CHOOSE k \in 1..Len(moved) :
                        moved[k] # 0 /\ \A j \in 1..(k - 1) : moved[j] = 0
        ppm == [neg |-> r.neg, id |-> SubSeq(moved, lead, Len(moved)),
                fd |-> SubSeq(r.fd, 7, Len(r.fd))]
    IN  Lf(c.lastset, 9) \o <<" ", "(">> \o formatTime
            \o <<" ", "U", "T", "C", ")", "\n">>
            \o Lf(r, 12) \o <<" ", "(">> \o Lf(ppm, 3)
            \o <<" ", "P", "P", "M", ")", "\n">>
            \o <<"U", "T", "C", "\n">>

\* fgets( line, sizeof( line ), cfile ) with the file at character pos:
\* through the next newline, 99 characters at most; <<>> at the end of file
fgets(text, pos) ==
    IF pos > Len(text) THEN <<>>
    ELSE LET last == IF pos + 98 < Len(text) THEN pos + 98 ELSE Len(text)
             nl == {k \in pos..last : text[k] = "\n"}
             end == IF nl = {} THEN last
                    ELSE CHOOSE k \in nl : \A j \in nl : k <= j
         IN  SubSeq(text, pos, end)

\* strtold( line, &ep ) for decimal numerals (no exponent, no "inf", no
\* hexadecimal): the value, and ep as an index into line.  ep = 1 is
\* ep == line, nothing converted
strtold(line) ==
    LET Run(k, set) ==
            CHOOSE j \in (k - 1)..Len(line) :
                /\ \A m \in k..j : line[m] \in set
                /\ (j = Len(line) \/ line[j + 1] \notin set)
        digit == {Digits[k] : k \in 1..10}
        Val(c) == CHOOSE d \in 0..9 : Digits[d + 1] = c
        sp == Run(1, {" "}) + 1
        signed == sp <= Len(line) /\ line[sp] \in {"-", "+"}
        start == IF signed THEN sp + 1 ELSE sp
        e1 == Run(start, digit)
        dot == e1 < Len(line) /\ line[e1 + 1] = "."
        e2 == IF dot THEN Run(e1 + 2, digit) ELSE e1
        nint == e1 - start + 1
        nfrac == IF dot THEN e2 - e1 - 1 ELSE 0
    IN  IF nint + nfrac = 0
        THEN [val |-> [neg |-> FALSE, id |-> <<0>>, fd |-> <<>>], ep |-> 1]
        ELSE [val |-> [neg |-> signed /\ line[sp] = "-",
                       id |-> IF nint = 0 THEN <<0>>
                              ELSE [k \in 1..nint |-> Val(line[start + k - 1])],
                       fd |-> [k \in 1..nfrac |-> Val(line[e1 + 1 + k])]],
              ep |-> e2 + 1]

\* readCalib on file f: the record is zeroed, then filled in line by line
\* until one does not parse
readCalibFrom(f) ==
    LET none == [valid |-> 0,
                 lastset |-> [neg |-> FALSE, id |-> <<0>>, fd |-> <<>>],
                 driftrate |-> [neg |-> FALSE, id |-> <<0>>, fd |-> <<>>]]
        \* !( ep == line || *ep++ != ' ' || *ep != '(' )
        noted(line, ep) ==
            /\ ep # 1
            /\ ep + 1 <= Len(line)
            /\ line[ep] = " " /\ line[ep + 1] = "("
    IN  IF calibfilename = "NULL" \/ ~f.exists THEN none
        ELSE LET l1 == fgets(f.text, 1)
                 n1 == strtold(l1)
                 r1 == [none EXCEPT !.lastset = n1.val]
                 l2 == fgets(f.text, 1 + Len(l1))
                 n2 == strtold(l2)
                 r2 == [r1 EXCEPT !.driftrate = n2.val]
                 l3 == fgets(f.text, 1 + Len(l1) + Len(l2))
             IN  IF l1 = <<>> THEN none
                 ELSE IF ~noted(l1, n1.ep) \/ l2 = <<>> THEN r1
                 ELSE IF ~noted(l2, n2.ep) \/ l3 # <<"U", "T", "C", "\n">>
                      THEN r2
                 ELSE [r2 EXCEPT !.valid = 1]

\* writeCalib up to the backup: nothing to do without a file name or a
\* valid record; fopen( calibfilename, "r" ) tells whether there is a file
\* to back up
wc_begin ==
    /\ pc = "wc_begin"
    /\ pc' = IF calibfilename = "NULL" \/ calib.valid = 0 THEN "wc_return"
             ELSE IF cfile.exists THEN "wc_bopen"
             ELSE "wc_topen"
    /\ UNCHANGED <<pins, chip, fn, testmode, todo, reg, i, n, data, dp, rbuf,
                   obs, force, calrundays, hour12, calibfilename, sysclock,
                   newtime, newt, stime, etime, clkregs, firstsec, try,
                   toytime, cfile, bfile, tfile, calib, exitCode, env, ev>>

\* fstat, then fopen( "<name>.bak", "w" ): the backup is created or cut to
\* nothing; a failure of either ends the program
wc_bopen ==
    /\ pc = "wc_bopen"
    /\ \/ /\ bfile' = [exists |-> TRUE, text |-> <<>>]
          /\ pc' = "wc_copy"
          /\ UNCHANGED <<exitCode, env, ev>>
       \/ /\ env.faults > 0
          /\ env' = [env EXCEPT !.faults = @ - 1]
          /\ \/ Exit("EX_OSERR", [ev EXCEPT !.ioFail = "fstat"], "IOError")
             \/ Exit("EX_IOERR", [ev EXCEPT !.ioFail = "bopen"], "IOError")
          /\ UNCHANGED bfile
    /\ UNCHANGED <<pins, chip, fn, testmode, todo, reg, i, n, data, dp, rbuf,
                   obs, force, calrundays, hour12, calibfilename, sysclock,
                   newtime, newt, stime, etime, clkregs, firstsec, try,
                   toytime, cfile, tfile, calib>>

\* the loop of fgetc / fputc and fclose( bfile ): the backup holds the
\* file's text, or, when writing fails, a part of it and the program ends
wc_copy ==
    /\ pc = "wc_copy"
    /\ \/ /\ bfile' = [exists |-> TRUE, text |-> cfile.text]
          /\ pc' = "wc_topen"
          /\ UNCHANGED <<exitCode, env, ev>>
       \/ /\ env.faults > 0
          /\ env' = [env EXCEPT !.faults = @ - 1]
          /\ \E k \in {0, Len(cfile.text) \div 2} :
                bfile' = [exists |-> TRUE, text |-> SubSeq(cfile.text, 1, k)]
          /\ Exit("EX_IOERR", [ev EXCEPT !.ioFail = "copy"], "IOError")
    /\ UNCHANGED <<pins, chip, fn, testmode, todo, reg, i, n, data, dp, rbuf,
                   obs, force, calrundays, hour12, calibfilename, sysclock,
                   newtime, newt, stime, etime, clkregs, firstsec, try,
                   toytime, cfile, tfile, calib>>

\* (a step that opens the calibration file itself for writing)
wc_topen_inplace ==
    /\ pc = "wc_topen"
    /\ cfile' = [exists |-> TRUE, text |-> <<>>]
    /\ tfile' = [exists |-> TRUE, text |-> <<>>]
    /\ pc' = "wc_tclose"
    /\ UNCHANGED <<pins, chip, fn, testmode, todo, reg, i, n, data, dp, rbuf,
                   obs, force, calrundays, hour12, calibfilename, sysclock,
                   newtime, newt, stime, etime, clkregs, firstsec, try,
                   toytime, bfile, calib, exitCode, env, ev>>

\* fopen( "<name>.tmp", "w" ); a failure is reported and writeCalib returns
wc_topen ==
    /\ pc = "wc_topen"
    /\ \/ /\ tfile' = [exists |-> TRUE, text |-> <<>>]
          /\ pc' = "wc_tclose"
          /\ UNCHANGED <<env, ev>>
       \/ /\ env.faults > 0
          /\ env' = [env EXCEPT !.faults = @ - 1]
          /\ ev' = [ev EXCEPT !.ioFail = "topen"]
          /\ pc' = "wc_return"
          /\ UNCHANGED tfile
    /\ UNCHANGED <<pins, chip, fn, testmode, todo, reg, i, n, data, dp, rbuf,
                   obs, force, calrundays, hour12, calibfilename, sysclock,
                   newtime, newt, stime, etime, clkregs, firstsec, try,
                   toytime, cfile, bfile, calib, exitCode>>

\* fprintf and fclose( cfile ): the temporary file holds the three lines,
\* or, when writing fails, a part of them; the failure is reported and
\* writeCalib returns
wc_tclose ==
    /\ pc = "wc_tclose"
    /\ \/ /\ tfile' = [exists |-> TRUE, text |-> CalibText(calib, etime)]
          /\ pc' = "wc_rename"
          /\ UNCHANGED <<env, ev>>
       \/ /\ env.faults > 0
          /\ env' = [env EXCEPT !.faults = @ - 1]
          /\ ev' = [ev EXCEPT !.ioFail = "tclose"]
          /\ \E k \in {0, Len(CalibText(calib, etime)) \div 2} :
                tfile' = [exists |-> TRUE,
                          text |-> SubSeq(CalibText(calib, etime), 1, k)]
          /\ pc' = "wc_return"
    /\ UNCHANGED <<pins, chip, fn, testmode, todo, reg, i, n, data, dp, rbuf,
                   obs, force, calrundays, hour12, calibfilename, sysclock,
                   newtime, newt, stime, etime, clkregs, firstsec, try,
                   toytime, cfile, bfile, calib, exitCode>>

\* rename( tmpname, calibfilename ): the temporary file takes the place of
\* the calibration file; a failure is reported and writeCalib returns
wc_rename ==
    /\ pc = "wc_rename"
    /\ \/ /\ cfile' = tfile
          /\ tfile' = NoFile
          /\ ev' = [ev EXCEPT !.calibWrites = @ + 1]
          /\ UNCHANGED env
       \/ /\ env.faults > 0
          /\ env' = [env EXCEPT !.faults = @ - 1]
          /\ ev' = [ev EXCEPT !.ioFail = "rename"]
          /\ UNCHANGED <<cfile, tfile>>
    /\ pc' = "wc_return"
    /\ UNCHANGED <<pins, chip, fn, testmode, todo, reg, i, n, data, dp, rbuf,
                   obs, force, calrundays, hour12, calibfilename, sysclock,
                   newtime, newt, stime, etime, clkregs, firstsec, try,
                   toytime, bfile, calib, exitCode>>

\* the process is killed, or the host stops, inside writeCalib
Crash ==
    /\ pc \in {"wc_begin", "wc_bopen", "wc_copy", "wc_topen", "wc_tclose",
              "wc_rename"}
    /\ pc' = "crashed"
    /\ UNCHANGED <<pins, chip, fn, testmode, todo, reg, i, n, data, dp, rbuf,
                   obs, force, calrundays, hour12, calibfilename, sysclock,
                   newtime, newt, stime, etime, clkregs, firstsec, try,
                   toytime, cfile, bfile, tfile, calib, exitCode, env, ev>>

\* readCalib( &calib ), as readUpdate calls it after a set, or first thing
rc_read ==
    /\ pc \in {"wc_return", "readCalib"}
    /\ calib' = readCalibFrom(cfile)
    /\ pc' = "rc_done"
    /\ UNCHANGED <<pins, chip, fn, testmode, todo, reg, i, n, data, dp, rbuf,
                   obs, force, calrundays, hour12, calibfilename, sysclock,
                   newtime, newt, stime, etime, clkregs, firstsec, try,
                   toytime, cfile, bfile, tfile, exitCode, env, ev>>

InitFile ==
    LET Numeral(neg, id, fd) == [neg |-> neg, id |-> id, fd |-> fd]
        \* 1600806806.0872743134, 1673776845.9999999996, 1673776845.5
        lastsets ==
            {Numeral(FALSE, <<1, 6, 0, 0, 8, 0, 6, 8, 0, 6>>,
                     <<0, 8, 7, 2, 7, 4, 3, 1, 3, 4>>),
             Numeral(FALSE, <<1, 6, 7, 3, 7, 7, 6, 8, 4, 5>>,
                     <<9, 9, 9, 9, 9, 9, 9, 9, 9, 6>>),
             Numeral(FALSE, <<1, 6, 7, 3, 7, 7, 6, 8, 4, 5>>, <<5>>)}
        \* 0, -0.0000289748912, 0.9999999999996, -0.0000000000004, 12.25
        rates ==
            {Numeral(FALSE, <<0>>, <<>>),
             Numeral(TRUE, <<0>>, <<0, 0, 0, 0, 2, 8, 9, 7, 4, 8, 9, 1, 2>>),
             Numeral(FALSE, <<0>>, <<9, 9, 9, 9, 9, 9, 9, 9, 9, 9, 9, 9, 6>>),
             Numeral(TRUE, <<0>>, <<0, 0, 0, 0, 0, 0, 0, 0, 0, 0, 0, 0, 4>>),
             Numeral(FALSE, <<1, 2>>, <<2, 5>>)}
        \* the file an earlier set has left
        old == CalibText([lastset |-> Numeral(FALSE, <<1, 6, 7, 3, 5, 0, 0, 0,
                                                       0, 0>>, <<2, 5>>),
                          driftrate |-> Numeral(TRUE, <<0>>, <<0, 0, 0, 0, 3>>)],
                         Ts(1673500000, 0))
        l1 == Len(fgets(old, 1))
        \* that file, and what is left of it when it is cut after its first
        \* line, loses the start of its second line, loses its last
        \* character, is empty, or does not start with a number
        texts == {old,
                  SubSeq(old, 1, l1),
                  [old EXCEPT ![l1 + 1] = "x"],
                  SubSeq(old, 1, Len(old) - 1),
                  <<>>,
                  <<"x">> \o old}
    IN  /\ ce = 0 /\ ck = 0 /\ io = 0 /\ ioDir = "out"
        /\ chip = ChipInit(FALSE, ChipRegsRunning)
        /\ fn = F_SET /\ testmode = FALSE /\ todo = <<>>
        /\ reg = 0 /\ i = 0 /\ n = 0 /\ data = 0 /\ dp = <<>> /\ rbuf = <<>>
        /\ exitCode = "none" /\ obs = NoObs
        /\ force = FALSE /\ calrundays = MIN_CAL_RUNDAYS /\ hour12 = FALSE
        /\ calibfilename \in {"adjtime", "NULL"}
        /\ sysclock = Ts(Now0, 1) /\ etime = Ts(Now0, 1)
        /\ newtime = NoTm /\ newt = 0 /\ stime = Ts(0, 0)
        /\ clkregs = <<>> /\ firstsec = 0 /\ try = 0 /\ toytime = 0
        /\ ev = NoEv
        /\ cfile \in {NoFile} \cup {[exists |-> TRUE, text |-> t] : t \in texts}
        /\ bfile = NoFile /\ tfile = NoFile
        /\ \/ /\ pc = "wc_begin"
              /\ calib \in {[valid |-> v, lastset |-> ls, driftrate |-> r] :
                              v \in {1}, ls \in lastsets, r \in rates}
                           \cup {[valid |-> 0, lastset |-> ls,
                                  driftrate |-> Numeral(FALSE, <<0>>, <<>>)] :
                                    ls \in lastsets}
              /\ env \in {Env("run", 0, 0, f, FALSE) : f \in 0..MaxFaults}
           \/ /\ pc = "readCalib"
              /\ calib = NoCalib
              /\ env = Env("run", 0, 0, 0, FALSE)

NextFile ==
    \/ wc_begin \/ wc_bopen \/ wc_copy \/ wc_topen \/ wc_tclose \/ wc_rename
    \/ Crash \/ rc_read

SpecFile == InitFile /\ [][NextFile]_vars

(***************************************************************************)
(* Properties of the calibration file (SpecFile)                           *)
(***************************************************************************)

\* C22: readCalib after a writeCalib that has installed a valid record
\* returns a valid record whose last set time agrees with the one written
\* to 9 decimal places and whose drift rate agrees to 12.
C22_WriteThenRead ==
    [][(/\ pc = "wc_return" /\ pc' = "rc_done"
        /\ ev.calibWrites = 1)
          => /\ calib'.valid = 1
             /\ Lf(calib'.lastset, 9) = Lf(calib.lastset, 9)
             /\ Lf(calib'.driftrate, 12) = Lf(calib.driftrate, 12)
             /\ Len(calib'.lastset.fd) = 9
             /\ Len(calib'.driftrate.fd) = 12]_vars

\* the record read back after 1673776845.9999999996 and -0.0000289748912
\* were written over an earlier file
C22_Witness ==
    /\ pc = "rc_done" /\ ev.calibWrites = 1 /\ bfile.exists
    /\ calib.valid = 1
    /\ calib.lastset = [neg |-> FALSE, id |-> <<1, 6, 7, 3, 7, 7, 6, 8, 4, 6>>,
                        fd |-> <<0, 0, 0, 0, 0, 0, 0, 0, 0>>]
    /\ calib.driftrate = [neg |-> TRUE, id |-> <<0>>,
                          fd |-> <<0, 0, 0, 0, 2, 8, 9, 7, 4, 8, 9, 1>>]

\* C23: whatever step writeCalib has reached, crashed or failed at, the
\* calibration file is as it was or holds the three lines of the new
\* record, put there by the rename; no other step changes it.
C23_TargetOldOrNew ==
    [][cfile' # cfile
          => /\ pc = "wc_rename"
             /\ cfile' = [exists |-> TRUE, text |-> CalibText(calib, etime)]]_vars

\* a crash with the temporary file begun, the earlier file in place and
\* copied to the backup
C23_Witness ==
    /\ pc = "crashed"
    /\ tfile.exists /\ tfile.text = <<>>
    /\ cfile.exists /\ cfile.text # <<>> /\ bfile = cfile

\* C24: an I/O error in the backup or in the rename ends the program with
\* a failure status.
C24_BackupOrRenameErrorExits ==
    ev.ioFail \in {"fstat", "bopen", "copy", "rename"}
        => (pc = "exit" /\ exitCode \notin {"none", "EX_OK"})

\* C25: readCalib returns either a valid record or one that is zero
\* throughout.
C25_InvalidIsZero ==
    (pc = "rc_done" /\ calib.valid = 0)
        => /\ \A k \in DOMAIN calib.lastset.id : calib.lastset.id[k] = 0
           /\ \A k \in DOMAIN calib.lastset.fd : calib.lastset.fd[k] = 0
           /\ \A k \in DOMAIN calib.driftrate.id : calib.driftrate.id[k] = 0
           /\ \A k \in DOMAIN calib.driftrate.fd : calib.driftrate.fd[k] = 0

(***************************************************************************)
(* SpecAll: every command of main, the register and RAM commands at the    *)
(* pins and the clock commands a transfer at a time                        *)
(***************************************************************************)

SpecAll == (InitBus \/ Init) /\ [][NextBus \/ Next]_vars

\* C36: a command that writes the chip (set, systohc, halt, set-ram,
\* set-tricklecharger, test-ram) and ends with EX_OK outside test mode, the
\* chip present, leaves the chip's write protect set; each of its data
\* writes is followed at once by a write of WP to the control register, or
\* is the clock burst with WP set in its control byte.
C36_Locked ==
    (/\ pc = "exit" /\ exitCode = "EX_OK" /\ ~testmode /\ chip.present
     /\ fn \in {F_SET, F_SET2SYS, F_HALT, F_SETRAM, F_SETTCS, F_TESTRAM})
        => ChipWP(chip)

C36_RelockStep ==
    /\ (fn \in BusFunctions /\ InWrite /\ ce = 1 /\ ce' = 0
        /\ obs.reg # TOY_CTL) =>
          /\ todo # <<>>
          /\ Head(todo) = Call("writeTOY", TOY_CTL, 0, <<TOY_M_WP>>)
    /\ (pc = "st_write" /\ pc' # pc) =>
          /\ BitAnd(RegOf(clkregs, TOY_CTL), TOY_M_WP) # 0
          /\ chip.present => ChipWP(chip')

C36_WriteProtectRestored == []C36_Locked /\ [][C36_RelockStep]_vars

\* the trickle charger has been set on a chip that was found halted and
\* unlocked
C36_Witness ==
    /\ fn = F_SETTCS /\ pc = "exit" /\ exitCode = "EX_OK" /\ ~testmode
    /\ chip.present /\ chip.tcs = TOY_M_TCS_1D_2K
    /\ RegOf(chip.regs, TOY_SEC) = RegOf(ChipRegsHalted, TOY_SEC)
    /\ ChipWP(chip)

(***************************************************************************)
(* SpecSeq: halt and set commands run one after the other on the same      *)
(* chip and calibration file, then a read                                  *)
(***************************************************************************)

\* commands in one sequence, the read included
MaxCommands == 3

\* the surroundings of one command of a sequence: a running oscillator, and
\* what went before: how many commands, and which of halt and set was the
\* last to run and the last to write the chip
Shell(cmds, last, wrote) ==
    [osc |-> "run", quiet |-> 0, ticks |-> MaxTicks, steps |-> 0, faults |-> 0,
     ntp |-> TRUE, cmds |-> cmds, last |-> last, wrote |-> wrote]

\* the program has exited; the next command line, one without --force, is
\* run a second later
NextCommand ==
    /\ pc = "exit"
    /\ fn \in {F_HALT, F_SET}
    /\ env.cmds + 1 < MaxCommands
    /\ \E f \in {F_HALT, F_SET, F_READ} :
          /\ fn' = f /\ force' = FALSE
          /\ pc' = IF f = F_SET THEN "parseSET" ELSE "initIO"
    /\ LET name == IF fn = F_HALT THEN "halt" ELSE "set"
           wrote == IF fn = F_HALT THEN exitCode = "EX_OK" ELSE ev.writes = 2
       IN  env' = Shell(env.cmds + 1, name, IF wrote THEN name ELSE env.wrote)
    /\ todo' = <<>> /\ reg' = 0 /\ i' = 0 /\ n' = 0 /\ data' = 0 /\ dp' = <<>>
    /\ rbuf' = <<>> /\ exitCode' = "none" /\ obs' = NoObs
    /\ newtime' = NoTm /\ newt' = 0 /\ stime' = Ts(0, 0) /\ etime' = Ts(0, 0)
    /\ calib' = NoCalib /\ clkregs' = <<>> /\ firstsec' = 0 /\ try' = 0
    /\ toytime' = 0 /\ ev' = NoEv
    /\ sysclock' = Ts(sysclock.sec + 1, sysclock.frac)
    /\ UNCHANGED <<pins, chip, testmode, calrundays, hour12, calibfilename,
                   cfile, bfile, tfile>>

InitSeq ==
    /\ ce = 0 /\ ck = 0 /\ io = 0 /\ ioDir = "out"
    /\ chip \in {ChipInit(TRUE, ChipRegsRunning), ChipInit(TRUE, ChipRegsHalted)}
    /\ testmode = FALSE /\ calrundays = 1 /\ hour12 = FALSE
    /\ calibfilename = "adjtime"
    /\ sysclock = Ts(Now0, 0)
    /\ \* no file, one last set less than a day ago, one three days ago
       cfile \in {NoFile,
                  CalibFile(TRUE, Ts(Now0 - SecsPerDay, 1), Rate(0, 1)),
                  CalibFile(TRUE, Ts(Now0 - 3 * SecsPerDay, 1), Rate(0, 1))}
    /\ bfile = NoFile /\ tfile = NoFile
    /\ fn \in {F_HALT, F_SET}
    /\ force \in (IF fn = F_SET THEN BOOLEAN ELSE {FALSE})
    /\ pc = IF fn = F_SET THEN "parseSET" ELSE "initIO"
    /\ env = Shell(0, "none", "none")
    /\ todo = <<>> /\ reg = 0 /\ i = 0 /\ n = 0 /\ data = 0 /\ dp = <<>>
    /\ rbuf = <<>> /\ exitCode = "none" /\ obs = NoObs
    /\ newtime = NoTm /\ newt = 0 /\ stime = Ts(0, 0) /\ etime = Ts(0, 0)
    /\ calib = NoCalib /\ clkregs = <<>> /\ firstsec = 0 /\ try = 0
    /\ toytime = 0
    /\ ev = NoEv

NextSeq ==
    \/ NextCommand
    \/ parseSET \/ initIO \/ mainClock \/ main \/ mainExit
    \/ writeTOY \/ writeTOY_pins \/ readTOY \/ readTOY_pins
    \/ unlockTOY \/ unlockTOY_check
    \/ setTOY \/ st_fit \/ st_cmp \/ st_again \/ st_fitted \/ st_commit
    \/ st_unlock \/ st_write \/ writeCalib
    \/ readUpdate \/ ru_cmp \/ ru_again \/ ru_after
    \/ ChipTick

SpecSeq == InitSeq /\ [][NextSeq]_vars

\* the read that ends a sequence has made its tests
ReadEnded == fn = F_READ /\ pc = "exit" /\ env.cmds > 0

Op(kind, pin, v) == [op |-> kind, pin |-> pin, v |-> v]

RECURSIVE Concat(_)
Concat(ss) == IF ss = <<>> THEN <<>> ELSE Head(ss) \o Concat(Tail(ss))

\* libgpiod: gpiod_line_request_set_value, ACTIVE for any non-zero value
setPinValue(pin, val) == <<Op("set", pin, IF val # 0 THEN 1 ELSE 0)>>

\* libgpiod: gpiod_line_request_get_value
readPinValue(pin) == <<Op("get", pin, 0)>>

\* libgpiod: the data line reconfigured as an input, as an output
reconfigure_lines(direction) == <<Op("dir", "io", direction)>>

\* memory-mapped: a write to the set register, to the clear register (the
\* NB_ forms leave out the memory barrier and are the same pin operation)
GPIO_SET(pin) == <<Op("set", pin, 1)>>
GPIO_CLR(pin) == <<Op("set", pin, 0)>>

\* if( value ) NB_GPIO_SET( pin ); else NB_GPIO_CLR( pin );
NB_GPIO_SET_TO(pin, value) == IF value # 0 THEN GPIO_SET(pin) ELSE GPIO_CLR(pin)

\* memory-mapped: a read of the level register
NB_GPIO_IS_SET(pin) == <<Op("get", pin, 0)>>

\* memory-mapped: the function select of a pin
gpio_fsel(pin, mode) == <<Op("dir", pin, mode)>>

\* writeTOY, #ifdef USE_LIBGPIOD: the command byte, then cnt data bytes
writeTOY_libgpiod(r, cnt, bytes) ==
    setPinValue("ck", 0) \o setPinValue("ce", 1)
    \o Concat([b \in 1..8 |->
          setPinValue("io", Bit(r, b - 1))
          \o setPinValue("ck", 1) \o setPinValue("ck", 0)])
    \o Concat([k \in 1..cnt |->
          Concat([b \in 1..8 |->
             setPinValue("io", Bit(bytes[k], b - 1))
             \o setPinValue("ck", 1) \o setPinValue("ck", 0)])])
    \o setPinValue("io", 0) \o setPinValue("ce", 0)

\* writeTOY, #else
writeTOY_mmapped(r, cnt, bytes) ==
    GPIO_CLR("ck") \o GPIO_SET("ce")
    \o Concat([b \in 1..8 |->
          NB_GPIO_SET_TO("io", Bit(r, b - 1))
          \o GPIO_SET("ck") \o GPIO_CLR("ck")])
    \o Concat([k \in 1..cnt |->
          Concat([b \in 1..8 |->
             NB_GPIO_SET_TO("io", Bit(bytes[k], b - 1))
             \o GPIO_SET("ck") \o GPIO_CLR("ck")])])
    \o GPIO_CLR("io") \o GPIO_CLR("ce")

\* (a libgpiod readTOY that raises the clock after every sample)
readTOY_libgpiod_all_rises(r, cnt) ==
    setPinValue("ck", 0) \o setPinValue("ce", 1)
    \o Concat([b \in 1..8 |->
          setPinValue("io", Bit(r, b - 1)) \o setPinValue("ck", 1)
          \o (IF b - 1 < 7 THEN setPinValue("ck", 0) ELSE <<>>)])
    \o reconfigure_lines("in")
    \o Concat([k \in 1..cnt |->
          Concat([b \in 1..8 |->
             setPinValue("ck", 0) \o readPinValue("io")
             \o setPinValue("ck", 1)])])
    \o setPinValue("ce", 0) \o reconfigure_lines("out") \o setPinValue("io", 0)

\* readTOY, #ifdef USE_LIBGPIOD: the command byte without its last falling
\* edge, the data line turned round, cnt bytes sampled (n, after n--, is
\* cnt - k in byte k), the data line turned back
readTOY_libgpiod(r, cnt) ==
    setPinValue("ck", 0) \o setPinValue("ce", 1)
    \o Concat([b \in 1..8 |->
          setPinValue("io", Bit(r, b - 1)) \o setPinValue("ck", 1)
          \o (IF b - 1 < 7 THEN setPinValue("ck", 0) ELSE <<>>)])
    \o reconfigure_lines("in")
    \o Concat([k \in 1..cnt |->
          Concat([b \in 1..8 |->
             setPinValue("ck", 0) \o readPinValue("io")
             \o (IF b - 1 < 7 \/ cnt - k # 0 THEN setPinValue("ck", 1)
                 ELSE <<>>)])])
    \o setPinValue("ce", 0) \o reconfigure_lines("out") \o setPinValue("io", 0)

\* readTOY, #else
readTOY_mmapped(r, cnt) ==
    GPIO_CLR("ck") \o GPIO_SET("ce")
    \o Concat([b \in 1..8 |->
          NB_GPIO_SET_TO("io", Bit(r, b - 1)) \o GPIO_SET("ck")
          \o (IF b - 1 < 7 THEN GPIO_CLR("ck") ELSE <<>>)])
    \o gpio_fsel("io", "in")
    \o Concat([k \in 1..cnt |->
          Concat([b \in 1..8 |->
             GPIO_CLR("ck") \o NB_GPIO_IS_SET("io")
             \o (IF b - 1 < 7 \/ cnt - k # 0 THEN GPIO_SET("ck") ELSE <<>>)])])
    \o GPIO_CLR("ce") \o gpio_fsel("io", "out") \o GPIO_CLR("io")

\* the calls libgpiod was asked to make when its k-th call fails: a failed
\* set or reconfiguration ends the program (EX_OSERR), a failed read of a
\* level is taken for a low level; k = 0: none fails
Issued(ops, k) ==
    IF k \in 1..Len(ops) /\ ops[k].op # "get" THEN SubSeq(ops, 1, k) ELSE ops

\* the data bytes of a burst of more than one, and the calls that may fail
MaxBurst == 2
MaxFailAt == 30

\* every command byte, with and without the gather / scatter flag; a RAM
\* burst of up to MaxBurst bytes
PinCalls ==
    {Call(f, r + g, c, [k \in 1..XferCount(r, c) |-> d]) :
        f \in {"readTOY", "writeTOY"}, r \in 0..255, g \in {0, TOY_GATHER},
        c \in 1..MaxBurst, d \in {90}}

InitPins ==
    /\ ce = 0 /\ ck = 0 /\ io = 0 /\ ioDir = "out"
    /\ chip = ChipInit(TRUE, ChipRegsRunning)
    /\ testmode = FALSE
    /\ fn = -1 /\ todo \in {<<c>> : c \in PinCalls}
    /\ pc = "call"
    /\ reg = 0 /\ n = 0 /\ data = 0 /\ dp = <<>> /\ rbuf = <<>>
    /\ i \in 0..MaxFailAt
    /\ exitCode = "none"
    /\ obs = NoObs
    /\ HostIdle

\* one writeTOY as either build makes it: dp the operations of the
\* memory-mapped build, rbuf those of the libgpiod build
writeTOY_backends ==
    /\ InCall("writeTOY")
    /\ LET c == Head(todo)
           cnt == XferCount(c.reg, c.n)
           ops == writeTOY_libgpiod(c.reg, cnt, c.data)
       IN  /\ rbuf' = Issued(ops, i)
           /\ dp' = writeTOY_mmapped(c.reg, cnt, c.data)
           /\ n' = cnt
           /\ exitCode' = IF Issued(ops, i) = ops THEN "none" ELSE "EX_OSERR"
    /\ pc' = "exit"
    /\ todo' = Tail(todo)
    /\ UNCHANGED <<ce, ck, io, ioDir, chip, fn, testmode, hostVars, reg, i, data, obs>>

\* one readTOY as either build makes it
readTOY_backends ==
    /\ InCall("readTOY")
    /\ LET c == Head(todo)
           cnt == XferCount(c.reg, c.n)
           ops == readTOY_libgpiod(c.reg, cnt)
       IN  /\ rbuf' = Issued(ops, i)
           /\ dp' = readTOY_mmapped(c.reg, cnt)
           /\ n' = cnt
           /\ exitCode' = IF Issued(ops, i) = ops THEN "none" ELSE "EX_OSERR"
    /\ pc' = "exit"
    /\ todo' = Tail(todo)
    /\ UNCHANGED <<ce, ck, io, ioDir, chip, fn, testmode, hostVars, reg, i, data, obs>>

SpecPins == InitPins /\ [][writeTOY_backends \/ readTOY_backends]_vars

\* C34: for every command byte and byte count, a readTOY or writeTOY of the
\* libgpiod build whose libgpiod calls all succeed makes the same sequence
\* of pin operations (levels set on chip-enable, clock and data, reads of
\* the data pin, turns of the data pin) as that of the memory-mapped build;
\* one that ends on a failed call has made the first of these operations.
C34_SameOperations ==
    pc = "exit" =>
        /\ exitCode = "none" => rbuf = dp
        /\ exitCode # "none" =>
              /\ Len(rbuf) \in 1..Len(dp)
              /\ rbuf = SubSeq(dp, 1, Len(rbuf))

\* a clock burst read: 8 bytes sampled, the clock left low after the last
C34_Witness ==
    /\ pc = "exit" /\ exitCode = "none" /\ n = TOY_CLK_REGS
    /\ Len(rbuf) = 2 + 23 + 1 + 3 * 8 * TOY_CLK_REGS - 1 + 3
    /\ rbuf = dp
    /\ rbuf[Len(rbuf) - 3].op = "get"

====
